---- MODULE Spec2Model ----
(***************************************************************************)
(* A model of the bigwig-reader library: the leaf-block record decoders,   *)
(* the BufferedDataLoader (buffered and streaming), the memoizing readers  *)
(* and BigWigReader.loadData over an R+ tree.                              *)
(*                                                                         *)
(* The module holds several specifications over one set of variables; each *)
(* specification drives one group of variables and leaves the others at    *)
(* their idle value.                                                       *)
(*   SpecDecode : decodeWigData / decodeBedData / decodeZoomData           *)
(*   SpecLoader : BufferedDataLoader.load under arbitrary calls            *)
(*   SpecCache  : the memoizing getters of BigWigReader and BamReader      *)
(*   SpecReader : a read* call, then the stream* call, on one file         *)
(*   SpecIndex  : blocksForRange on the BAM index of one reference         *)
(*   SpecBins   : reg2bins                                                 *)
(*   SpecBgzf   : bgzfUnzip on an input of BGZF members                    *)
(*   SpecBam    : BamReader.read                                           *)
(*   SpecFeatures : readBamFeatures on an uncompressed buffer              *)
(*   SpecTwoBit : readTwoBitData / loadSequence                            *)
(*   SpecHeader : loadHeaderData and loadData on the bytes of a file       *)
(*   SpecBai    : readBamIndex / readBamIndexRef on the bytes of a BAI file *)
(*   SpecPastIndex : blocksForRange of the earlier index reader            *)
(*   SpecPair   : two read calls on one reader, interleaved                *)
(***************************************************************************)
EXTENDS Integers, Sequences, FiniteSets, TLC

VARIABLES
    dPc,        \* decoder harness: "ready" before the decode call, "done" after
    dKind,      \* which decode function the block is handed to: "wig", "bed", "zoom"
    dBlock,     \* the (inflated) leaf block handed to the decode function
    dQuery,     \* the filter arguments [sc, sb, ec, eb] of the decode call
    dOut        \* the array the decode function returned

decodeVars == <<dPc, dKind, dBlock, dQuery, dOut>>

VARIABLES
    fileLen,        \* length of the resource behind the DataLoader
    tailPolicy,     \* how the transport answers a sized request that runs past the
                    \* end: "outOfRange" (HTTP 416) or "truncate" (a short 206)
    hasLoadStream,  \* whether the DataLoader defines the optional loadStream
    chunkSizes,     \* the chunk sizes in which a stream of the DataLoader delivers
    legacy,         \* TRUE: the BufferedDataLoader class of DataLoader.ts;
                    \* FALSE: the class of loader/DataLoader the readers import
    streamMode,     \* BufferedDataLoader.streamMode
    bufferSize,     \* BufferedDataLoader.bufferSize
    buffer,         \* BufferedDataLoader.buffer (a LoaderBuffer or undefined)
    stream,         \* BufferedDataLoader.stream and how far it has delivered
    liveStreams,    \* streams the loader opened that are neither ended nor destroyed
    lock,           \* BufferedDataLoader.streamCaughtUpLock
    call            \* the load(start, size) call in progress, or the last one

envVars == <<fileLen, tailPolicy, hasLoadStream, chunkSizes, legacy>>

loaderVars == <<streamMode, bufferSize, buffer, stream, liveStreams, lock, call>>

VARIABLES
    cFileType,              \* the file type the header of the reader's file announces
    cachedHeader,           \* BigWigReader.cachedHeader
    cachedSequenceRecords,  \* BigWigReader.cachedSequenceRecords (its own keys)
    indexData,              \* BamReader.indexData
    headerData,             \* BamReader.headerData
    calls,                  \* how many calls were made on the two readers
    firstLoaded,            \* per artifact, the value its first successful load returned
    cCall                   \* the last call: what it returned, the requests it issued

cacheVars == <<cFileType, cachedHeader, cachedSequenceRecords, indexData, headerData,
               calls, firstLoaded, cCall>>

VARIABLES
    file,       \* the BigWig / BigBed file behind the reader's DataLoader
    query,      \* the arguments of the read* / stream* call
    rd,         \* the loadData call in progress
    readOut     \* what the read* call returned, kept for the stream* call that follows

readerVars == <<file, query, rd, readOut>>

VARIABLES
    refIndex,   \* the BamIndexRefData handed to blocksForRange
    ixQuery,    \* the start and end of the blocksForRange call
    ixOut       \* what the call returned or threw

indexVars == <<refIndex, ixQuery, ixOut>>

VARIABLES
    binsRegion, \* the start and end handed to reg2bins
    binsOut     \* the list reg2bins returned

binsVars == <<binsRegion, binsOut>>

VARIABLES
    bgzfInput,  \* the BGZF members handed to bgzfUnzip, as bytes
    bgzfOut     \* what bgzfUnzip returned for the whole input and per member

bgzfVars == <<bgzfInput, bgzfOut>>

VARIABLES
    bam,        \* the BAM file and its index behind the BamReader's two loaders
    bamQuery,   \* the chr, start and end of the read call
    bamCall     \* the read call in progress

bamVars == <<bam, bamQuery, bamCall>>

VARIABLES
    featBuffer, \* the uncompressed buffer handed to readBamFeatures
    featQuery,  \* the refId, chr, bpStart and bpEnd handed to it
    featOut     \* the alignments it returned

featVars == <<featBuffer, featQuery, featOut>>

VARIABLES
    twoBit,     \* the sequence record of a 2bit file
    tbQuery,    \* the start and end of the readTwoBitData call
    tbOut       \* the string the call returned

twoBitVars == <<twoBit, tbQuery, tbOut>>

VARIABLES
    hdrFile,    \* a BigWig / BigBed file as bytes, and what was written into it
    hdrCall     \* the read call on it: header, R+ tree magic, root node, section

hdrVars == <<hdrFile, hdrCall>>

VARIABLES
    baiFile,    \* a BAI file: its bytes, and the references written into it
    baiCall     \* the readBamIndex / readBamIndexRef call on it

baiVars == <<baiFile, baiCall>>

VARIABLES
    bamIndex,   \* one reference of the index the earlier index reader parsed
    pastQuery,  \* the start and end of its last blocksForRange call
    pastOut     \* the chunks that call resolved to

pastVars == <<bamIndex, pastQuery, pastOut>>

VARIABLES
    readArgs,   \* the arguments of two read calls on one BigWigReader
    reads,      \* the two calls: position, walk, leaf list and buffered loader
    lists       \* the record list (data) of each call

pairVars == <<readArgs, reads, lists>>

\* the groups of the BAM, BGZF, 2bit and file header models
extVars == <<indexVars, binsVars, bgzfVars, bamVars, featVars, twoBitVars, hdrVars, baiVars, pastVars, pairVars>>

\* for the actions of one of these groups: the other groups
notIndex == <<binsVars, bgzfVars, bamVars, twoBitVars, featVars, hdrVars, baiVars, pastVars, pairVars>>

notBins == <<indexVars, bgzfVars, bamVars, twoBitVars, featVars, hdrVars, baiVars, pastVars, pairVars>>

notBgzf == <<indexVars, binsVars, bamVars, twoBitVars, featVars, hdrVars, baiVars, pastVars, pairVars>>

notBam == <<indexVars, binsVars, bgzfVars, twoBitVars, featVars, hdrVars, baiVars, pastVars, pairVars>>

notTwoBit == <<indexVars, binsVars, bgzfVars, bamVars, featVars, hdrVars, baiVars, pastVars, pairVars>>

notFeat == <<indexVars, binsVars, bgzfVars, bamVars, twoBitVars, hdrVars, baiVars, pastVars, pairVars>>

notHdr == <<indexVars, binsVars, bgzfVars, bamVars, featVars, twoBitVars, baiVars, pastVars, pairVars>>

notBai == <<indexVars, binsVars, bgzfVars, bamVars, featVars, twoBitVars, hdrVars, pastVars, pairVars>>

notPast == <<indexVars, binsVars, bgzfVars, bamVars, featVars, twoBitVars, hdrVars, baiVars, pairVars>>

notPair == <<indexVars, binsVars, bgzfVars, bamVars, featVars, twoBitVars, hdrVars, baiVars, pastVars>>

coreVars == <<decodeVars, envVars, loaderVars, cacheVars, readerVars>>

vars == <<coreVars, extVars>>

\* what the BufferedDataLoader's own steps never touch
nonLoaderVars == <<decodeVars, cacheVars, readerVars, extVars>>

(***************************************************************************)
(* Chromosome dictionary of the file (ChromTree.idToChrom / chromToId).    *)
(* Ids are dense and 0-based; TLA+ sequences are 1-based.                  *)
(***************************************************************************)
idToChrom == <<"chr1", "chr2", "chr3">>

ChromIds == {i - 1 : i \in DOMAIN idToChrom}

ChromName(id) == idToChrom[id + 1]

chromToId == [name \in {idToChrom[i] : i \in DOMAIN idToChrom} |->
                 CHOOSE id \in ChromIds : ChromName(id) = name]

(***************************************************************************)
(* Bounds of the decoder inputs.                                           *)
(***************************************************************************)
MaxItems == 2

MaxBase == 2

Bases == 0..MaxBase

Queries == {q \in [sc : ChromIds, sb : Bases, ec : ChromIds, eb : Bases] : q.sc <= q.ec}

(***************************************************************************)
(* The two range tests every decoder applies to a record.                  *)
(***************************************************************************)
PastRangeEndOffByOne(chromIndex, startBase, q) ==
    chromIndex > q.ec \/ (chromIndex = q.ec /\ startBase > q.eb)

PastRangeEnd(chromIndex, startBase, q) ==
    chromIndex > q.ec \/ (chromIndex = q.ec /\ startBase >= q.eb)

BeforeRangeStart(chromIndex, endBase, q) ==
    chromIndex < q.sc \/ (chromIndex = q.sc /\ endBase < q.sb)

(***************************************************************************)
(* decodeWigData.  A wig section: the 24-byte header, then itemCount items *)
(* whose layout depends on the section type (1 bedGraph, 2 variableStep,   *)
(* anything else fixedStep).                                               *)
(***************************************************************************)
RECURSIVE WigLoop(_, _, _, _, _)
WigLoop(b, q, i, startBase, decodedData) ==
    IF i > Len(b.items) THEN decodedData
    ELSE LET it == b.items[i]
             s  == IF b.type \in {1, 2} THEN it.start ELSE startBase
             e  == IF b.type = 1 THEN it.end ELSE s + b.itemSpan
             entry == [chr |-> ChromName(b.chromIndex), start |-> s, end |-> e,
                       value |-> it.value]
         IN  IF PastRangeEnd(b.chromIndex, s, q) THEN decodedData
             ELSE WigLoop(b, q, i + 1,
                          IF b.type \in {1, 2} THEN s ELSE s + b.itemStep,
                          IF ~BeforeRangeStart(b.chromIndex, e, q)
                          THEN Append(decodedData, entry) ELSE decodedData)

decodeWigData(b, q) ==
    IF b.chromIndex < q.sc \/ b.chromIndex > q.ec THEN <<>>
    ELSE WigLoop(b, q, 1, b.startBase, <<>>)

(***************************************************************************)
(* decodeBedData.  A bed block is a run of records (chromIndex, start,     *)
(* end, NUL-terminated rest); the loop runs while at least minSize bytes   *)
(* remain.                                                                 *)
(***************************************************************************)
BedMinSize == 3 * 4 + 1

BedRecordSize(r) == 3 * 4 + r.restLen + 1

\* BinaryParser.remLength() once the first i - 1 records have been read
RECURSIVE BedRemLength(_, _)
BedRemLength(recs, i) ==
    IF i > Len(recs) THEN 0 ELSE BedRecordSize(recs[i]) + BedRemLength(recs, i + 1)

RECURSIVE BedLoop(_, _, _, _)
BedLoop(recs, q, i, decodedData) ==
    IF ~(BedRemLength(recs, i) >= BedMinSize) THEN decodedData
    ELSE LET r == recs[i]
             entry == [chr |-> ChromName(r.chromIndex), start |-> r.start,
                       end |-> r.end, rest |-> r.rest]
         IN  IF BeforeRangeStart(r.chromIndex, r.end, q)
             THEN BedLoop(recs, q, i + 1, decodedData)
             ELSE IF PastRangeEnd(r.chromIndex, r.start, q) THEN decodedData
             ELSE BedLoop(recs, q, i + 1, Append(decodedData, entry))

decodeBedData(b, q) == BedLoop(b.records, q, 1, <<>>)

(***************************************************************************)
(* decodeZoomData.  A zoom block is a run of 32-byte records; the loop     *)
(* runs while MORE than minSize bytes remain.                              *)
(***************************************************************************)
ZoomMinSize == 8 * 4

ZoomRecordSize == 8 * 4

ZoomRemLength(recs, i) == IF i > Len(recs) THEN 0 ELSE (Len(recs) - i + 1) * ZoomRecordSize

RECURSIVE ZoomLoop(_, _, _, _)
ZoomLoop(recs, q, i, decodedData) ==
    IF ~(ZoomRemLength(recs, i) > ZoomMinSize) THEN decodedData
    ELSE LET r == recs[i]
             entry == [chr |-> ChromName(r.chromIndex), start |-> r.start,
                       end |-> r.end, validCount |-> r.validCount]
         IN  IF BeforeRangeStart(r.chromIndex, r.end, q)
             THEN ZoomLoop(recs, q, i + 1, decodedData)
             ELSE IF PastRangeEnd(r.chromIndex, r.start, q) THEN decodedData
             ELSE ZoomLoop(recs, q, i + 1, Append(decodedData, entry))

decodeZoomData(b, q) == ZoomLoop(b.records, q, 1, <<>>)

Decode(kind, b, q) ==
    CASE kind = "wig"  -> decodeWigData(b, q)
      [] kind = "bed"  -> decodeBedData(b, q)
      [] kind = "zoom" -> decodeZoomData(b, q)

(***************************************************************************)
(* Input blocks of the decoder specification.                              *)
(***************************************************************************)
\* the bases at which the records of an input block start
RecordBases == {0, 1, 2}

SeqsUpTo(S, n) == UNION {[1..k -> S] : k \in 0..n}

WigItems == [start : RecordBases, end : RecordBases, value : {1}]

WigBlocks ==
    \* bedGraph: every item carries start and end
    {[chromIndex |-> c, startBase |-> 0, itemStep |-> 0, itemSpan |-> 0,
      type |-> 1, items |-> its] : c \in ChromIds, its \in SeqsUpTo(WigItems, MaxItems)}
    \cup
    \* variableStep: every item carries its start, the span is the section's
    {[chromIndex |-> c, startBase |-> 0, itemStep |-> 0, itemSpan |-> sp,
      type |-> 2, items |-> its] :
        c \in ChromIds, sp \in {1, 2},
        its \in SeqsUpTo([start : RecordBases, end : {0}, value : {1}], MaxItems)}
    \cup
    \* fixedStep: the items carry values only
    {[chromIndex |-> c, startBase |-> sb, itemStep |-> st, itemSpan |-> sp,
      type |-> 3, items |-> its] :
        c \in ChromIds, sb \in RecordBases, st \in {1, 2}, sp \in {1, 2},
        its \in SeqsUpTo([start : {0}, end : {0}, value : {1}], MaxItems)}

BedRecords ==
    {[chromIndex |-> c, start |-> s, end |-> s + w, rest |-> "r", restLen |-> 1] :
        c \in ChromIds, s \in RecordBases, w \in {0, 1}}

BedBlocks == {[records |-> rs] : rs \in SeqsUpTo(BedRecords, MaxItems)}

ZoomRecords ==
    {[chromIndex |-> c, start |-> s, end |-> s + w, validCount |-> 1] :
        c \in ChromIds, s \in RecordBases, w \in {0, 1}}

ZoomBlocks == {[records |-> rs] : rs \in SeqsUpTo(ZoomRecords, MaxItems)}

BlocksOf(kind) ==
    CASE kind = "wig"  -> WigBlocks
      [] kind = "bed"  -> BedBlocks
      [] kind = "zoom" -> ZoomBlocks

(***************************************************************************)
(* The resource behind the DataLoader.  The byte stored at offset i is     *)
(* written i, so a byte sequence names the offsets it was read from.       *)
(***************************************************************************)
FileBytes(from, to) == [i \in 1..(to - from) |-> from + i - 1]

Min(a, b) == IF a < b THEN a ELSE b

\* ArrayBuffer.slice(from, to) with 0 <= from, to clamped to the length
Slice(data, from, to) == SubSeq(data, from + 1, Min(to, Len(data)))

(***************************************************************************)
(* DataLoader.load / loadStream as AxiosDataLoader implements them: a      *)
(* Range request; status 416 becomes OutOfRangeError, any other answer is  *)
(* handed back as it came.  sized = FALSE is the request with no size.     *)
(* The answer is the byte range [from, to) or an OutOfRange failure.       *)
(***************************************************************************)
TransportRange(start, sized, size) ==
    IF start >= fileLen THEN [status |-> "OutOfRange", from |-> 0, to |-> 0]
    ELSE IF ~sized THEN [status |-> "ok", from |-> start, to |-> fileLen]
    ELSE IF start + size <= fileLen
         THEN [status |-> "ok", from |-> start, to |-> start + size]
    ELSE IF tailPolicy = "truncate"
         THEN [status |-> "ok", from |-> start, to |-> fileLen]
    ELSE [status |-> "OutOfRange", from |-> 0, to |-> 0]

\* every answer a request can get: the transport's own, or a transport failure
TransportAnswers(start, sized, size) ==
    {TransportRange(start, sized, size),
     [status |-> "TransportError", from |-> 0, to |-> 0]}

(***************************************************************************)
(* BufferedDataLoader state.                                               *)
(***************************************************************************)
UndefinedBuffer ==
    [defined |-> FALSE, data |-> <<>>, start |-> 0,
     hasRemaining |-> FALSE, remainingBytes |-> 0]

NoStream == [state |-> "none", pos |-> 0, end |-> 0]

NoLock == [state |-> "none", currentPos |-> 0, caughtUpPos |-> 0]

NoResult == [status |-> "none", data |-> <<>>]

IdleCall ==
    [pc |-> "idle", start |-> 0, size |-> 0, sliceStart |-> 0,
     reqs |-> <<>>, pre |-> UndefinedBuffer, res |-> NoResult]

Request(op, start, sized, size) ==
    [op |-> op, start |-> start, sized |-> sized, size |-> size, outcome |-> "pending"]

\* the last request of the call gets its outcome
Answered(reqs, outcome) ==
    [reqs EXCEPT ![Len(reqs)] = [@ EXCEPT !.outcome = outcome]]

\* the hit test of getDataFromBuffer in the BufferedDataLoader of DataLoader.ts
getDataFromBufferHit(b, start, size) ==
    IF ~b.defined THEN FALSE
    ELSE LET end == start + size
             bufferEnd == b.start + Len(b.data)
         IN  start > b.start /\ end < bufferEnd

bufferContainsData(b, start, size) ==
    IF ~b.defined THEN FALSE
    ELSE LET end == start + size
             bufferEnd == b.start + Len(b.data)
                          + (IF b.hasRemaining THEN b.remainingBytes ELSE 0)
         IN  start >= b.start /\ end <= bufferEnd

\* the hit test of the loader that was constructed
InBuffer(b, start, size) ==
    IF legacy THEN getDataFromBufferHit(b, start, size)
    ELSE bufferContainsData(b, start, size)

\* getDataFromBuffer, streamMode === false: the result of the call; the
\* loader of DataLoader.ts makes the same size test with a plain Error
GetDataFromBuffer(b, start, size) ==
    LET sliceStart == start - b.start
        sliceEnd == sliceStart + size
    IN  IF ~b.defined THEN [status |-> "Error", data |-> <<>>]
        ELSE IF size > Len(b.data)
             THEN [status |-> IF legacy THEN "Error" ELSE "IOError", data |-> <<>>]
        ELSE [status |-> "ok", data |-> Slice(b.data, sliceStart, sliceEnd)]

\* new StreamCaughtUpLock(currentPos, caughtUpPos)
NewLock(currentPos, caughtUpPos) ==
    [state |-> IF currentPos >= caughtUpPos THEN "resolved" ELSE "pending",
     currentPos |-> currentPos, caughtUpPos |-> caughtUpPos]

\* StreamCaughtUpLock.updatePosition; a settled promise stays settled
UpdatePosition(l, position) ==
    [l EXCEPT !.currentPos = position,
              !.state = IF @ = "pending" /\ position >= l.caughtUpPos
                        THEN "resolved" ELSE @]

\* StreamCaughtUpLock.endStream
EndStream(l) ==
    [l EXCEPT !.state = IF @ = "pending" /\ l.currentPos < l.caughtUpPos
                        THEN "rejected" ELSE @]

\* the catch clause of loadDataIntoBuffer / streamDataIntoBuffer
RetriesOnAnyError(status) == status # "ok"

Retries(status) == status = "OutOfRange"

\* stream.destroy() of streamDataIntoBuffer, with this.stream = undefined
DestroyNothing(s, live) == [stream |-> NoStream, live |-> live]

Destroy(s, live) ==
    [stream |-> NoStream, live |-> IF s.state = "live" THEN live - 1 ELSE live]

(***************************************************************************)
(* load(start, size), up to its first await.                               *)
(***************************************************************************)
\* the end of getDataFromBuffer in stream mode: the head of the buffer is
\* chopped off and its start moved behind the bytes returned
ChoppedDataOnly(b, sliceEnd) == [b EXCEPT !.data = Slice(b.data, sliceEnd, Len(b.data))]

ChoppedBuffer(b, sliceEnd) ==
    [b EXCEPT !.data = Slice(b.data, sliceEnd, Len(b.data)),
              !.start = b.start + sliceEnd]

\* getDataFromBuffer in stream mode, up to the await on the lock; when the
\* lock is already resolved the rest of the method runs with it
StreamRead(b, c, lk) ==
    LET sliceStart == c.start - b.start
        sliceEnd == sliceStart + c.size
    IN  IF lk.state = "resolved"
        THEN /\ buffer' = ChoppedBuffer(b, sliceEnd)
             /\ call' = [c EXCEPT !.pc = "idle", !.sliceStart = sliceStart,
                           !.res = [status |-> "ok",
                                    data |-> Slice(b.data, sliceStart, sliceEnd)]]
        ELSE /\ buffer' = b
             /\ call' = [c EXCEPT !.pc = "wait", !.sliceStart = sliceStart]

LoadFromBuffer(start, size) ==
    /\ call.pc = "idle"
    /\ InBuffer(buffer, start, size)
    /\ LET c == [IdleCall EXCEPT !.start = start, !.size = size, !.pre = buffer]
       IN  IF ~streamMode
           THEN /\ call' = [c EXCEPT !.res = GetDataFromBuffer(buffer, start, size)]
                /\ UNCHANGED <<buffer, lock>>
           ELSE LET lk == NewLock(buffer.start + Len(buffer.data), start + size)
                IN  /\ lock' = lk
                    /\ StreamRead(buffer, c, lk)
    /\ UNCHANGED <<envVars, streamMode, bufferSize, stream, liveStreams>>

\* loadDataIntoBuffer up to the first dataLoader.load
LoadMiss(start, size) ==
    /\ call.pc = "idle"
    /\ ~streamMode
    /\ ~InBuffer(buffer, start, size)
    /\ call' = [IdleCall EXCEPT !.pc = "fetch1", !.start = start, !.size = size,
                  !.pre = buffer,
                  !.reqs = <<Request("load", start, TRUE, bufferSize)>>]
    /\ UNCHANGED <<envVars, streamMode, bufferSize, buffer, stream, liveStreams, lock>>

\* streamDataIntoBuffer up to the first dataLoader.loadStream
StreamMiss(start, size) ==
    /\ call.pc = "idle"
    /\ streamMode
    /\ ~InBuffer(buffer, start, size)
    /\ LET c == [IdleCall EXCEPT !.start = start, !.size = size, !.pre = buffer]
       IN  IF ~hasLoadStream
           THEN /\ call' = [c EXCEPT !.res = [status |-> "Error", data |-> <<>>]]
                /\ UNCHANGED <<stream, liveStreams>>
           ELSE /\ stream' = Destroy(stream, liveStreams).stream
                /\ liveStreams' = Destroy(stream, liveStreams).live
                /\ call' = [c EXCEPT !.pc = "open1",
                              !.reqs = <<Request("loadStream", start, TRUE, bufferSize)>>]
    /\ UNCHANGED <<envVars, streamMode, bufferSize, buffer, lock>>

(***************************************************************************)
(* The awaited dataLoader.load answers (loadDataIntoBuffer), and load      *)
(* finishes with getDataFromBuffer.                                        *)
(***************************************************************************)
LoadAnswered ==
    /\ call.pc \in {"fetch1", "fetch2"}
    /\ \E a \in TransportAnswers(call.start, call.pc = "fetch1", bufferSize) :
         LET reqs == Answered(call.reqs, a.status)
         IN  IF a.status = "ok"
             THEN LET b == [defined |-> TRUE, data |-> FileBytes(a.from, a.to),
                            start |-> call.start,
                            hasRemaining |-> FALSE, remainingBytes |-> 0]
                  IN  /\ buffer' = b
                      /\ call' = [call EXCEPT !.pc = "idle", !.reqs = reqs,
                                    !.res = GetDataFromBuffer(b, call.start, call.size)]
             ELSE IF call.pc = "fetch1" /\ Retries(a.status)
             THEN /\ call' = [call EXCEPT !.pc = "fetch2",
                                !.reqs = Append(reqs, Request("load", call.start, FALSE, 0))]
                  /\ UNCHANGED buffer
             ELSE /\ call' = [call EXCEPT !.pc = "idle", !.reqs = reqs,
                                !.res = [status |-> a.status, data |-> <<>>]]
                  /\ UNCHANGED buffer
    /\ UNCHANGED <<envVars, streamMode, bufferSize, stream, liveStreams, lock>>
    /\ UNCHANGED nonLoaderVars

(***************************************************************************)
(* The awaited dataLoader.loadStream answers (streamDataIntoBuffer): the   *)
(* new buffer, the 'data' and 'end' handlers, then getDataFromBuffer.      *)
(***************************************************************************)
StreamAnswered ==
    /\ call.pc \in {"open1", "open2"}
    /\ \E a \in TransportAnswers(call.start, call.pc = "open1", bufferSize) :
         LET reqs == Answered(call.reqs, a.status)
         IN  IF a.status = "ok"
             THEN LET b == [defined |-> TRUE, data |-> <<>>, start |-> call.start,
                            hasRemaining |-> TRUE, remainingBytes |-> bufferSize]
                      lk == NewLock(b.start + Len(b.data), call.start + call.size)
                  IN  /\ stream' = [state |-> "live", pos |-> a.from, end |-> a.to]
                      /\ liveStreams' = liveStreams + 1
                      /\ lock' = lk
                      /\ StreamRead(b, [call EXCEPT !.reqs = reqs], lk)
             ELSE IF call.pc = "open1" /\ Retries(a.status)
             THEN /\ call' = [call EXCEPT !.pc = "open2",
                                !.reqs = Append(reqs, Request("loadStream", call.start, FALSE, 0))]
                  /\ UNCHANGED <<buffer, stream, liveStreams, lock>>
             ELSE /\ call' = [call EXCEPT !.pc = "idle", !.reqs = reqs,
                                !.res = [status |-> a.status, data |-> <<>>]]
                  /\ UNCHANGED <<buffer, stream, liveStreams, lock>>
    /\ UNCHANGED <<envVars, streamMode, bufferSize>>
    /\ UNCHANGED nonLoaderVars

(***************************************************************************)
(* The stream's 'data' handler with a chunk of n bytes, and the rest of    *)
(* getDataFromBuffer when that resolves the lock a load is waiting on.     *)
(***************************************************************************)
MaxChunk == 2

StreamData(chunk) ==
    /\ stream.state = "live"
    /\ stream.pos < stream.end
    /\ LET n == Min(chunk, stream.end - stream.pos)
           b == [buffer EXCEPT !.data = @ \o FileBytes(stream.pos, stream.pos + n),
                               !.remainingBytes = @ - n]
           lk == IF lock.state = "none" THEN lock
                 ELSE UpdatePosition(lock, b.start + Len(b.data))
           sliceEnd == call.sliceStart + call.size
       IN  /\ stream' = [stream EXCEPT !.pos = stream.pos + n]
           /\ lock' = lk
           /\ IF call.pc = "wait" /\ lk.state = "resolved"
              THEN /\ buffer' = ChoppedBuffer(b, sliceEnd)
                   /\ call' = [call EXCEPT !.pc = "idle",
                                 !.res = [status |-> "ok",
                                          data |-> Slice(b.data, call.sliceStart, sliceEnd)]]
              ELSE /\ buffer' = b
                   /\ UNCHANGED call
    /\ UNCHANGED <<envVars, streamMode, bufferSize, liveStreams>>

StreamDataArrives ==
    /\ \E chunk \in chunkSizes : StreamData(chunk)
    /\ UNCHANGED nonLoaderVars

\* the stream's 'end' handler
StreamEnd ==
    /\ stream.state = "live"
    /\ stream.pos = stream.end
    /\ stream' = [stream EXCEPT !.state = "ended"]
    /\ liveStreams' = liveStreams - 1
    /\ LET lk == IF lock.state = "none" THEN lock ELSE EndStream(lock)
       IN  /\ lock' = lk
           /\ IF call.pc = "wait" /\ lk.state = "rejected"
              THEN call' = [call EXCEPT !.pc = "idle",
                              !.res = [status |-> "Stream ended prematurely", data |-> <<>>]]
              ELSE UNCHANGED call
    /\ UNCHANGED <<envVars, streamMode, bufferSize, buffer>>
    /\ UNCHANGED nonLoaderVars

(***************************************************************************)
(* A new BufferedDataLoader, and the resource of the loader specification. *)
(***************************************************************************)
LoaderFileLen == 5

MaxLoadSize == 4

BufferSizes == {2, 3}

NewLoader(mode, size) ==
    /\ streamMode = mode
    /\ bufferSize = size
    /\ buffer = UndefinedBuffer
    /\ stream = NoStream
    /\ liveStreams = 0
    /\ lock = NoLock
    /\ call = IdleCall

LoaderIdle ==
    /\ fileLen = 0
    /\ tailPolicy = "outOfRange"
    /\ hasLoadStream = FALSE
    /\ chunkSizes = {}
    /\ legacy = FALSE
    /\ NewLoader(FALSE, 0)

LoaderInit ==
    /\ fileLen = LoaderFileLen
    /\ tailPolicy \in {"outOfRange", "truncate"}
    /\ streamMode \in BOOLEAN
    /\ hasLoadStream \in (IF streamMode THEN BOOLEAN ELSE {TRUE})
    /\ chunkSizes = 1..MaxChunk
    /\ legacy \in (IF streamMode THEN {FALSE} ELSE BOOLEAN)
    /\ \E size \in BufferSizes : NewLoader(streamMode, size)

(***************************************************************************)
(* Property lookup obj[key] on an object literal {}: an own key, else a    *)
(* property inherited from Object.prototype, else undefined.               *)
(***************************************************************************)
Undefined == [what |-> "undefined", load |-> 0]

\* what a key of Object.prototype yields: a function, neither falsy nor undefined
Inherited == [what |-> "inherited", load |-> 0]

ObjectPrototypeKeys == {"constructor", "toString"}

Get(obj, key) ==
    IF key \in DOMAIN obj THEN obj[key]
    ELSE IF key \in ObjectPrototypeKeys THEN Inherited
    ELSE Undefined

(***************************************************************************)
(* The memoizing getters of BigWigReader and BamReader.  A call is taken   *)
(* whole: the calls of one series are sequential.  A load makes at least   *)
(* one request to the DataLoader and either builds the artifact or fails;  *)
(* the value built by the load of call number n is written with n, so two  *)
(* loads never build the same value.                                       *)
(***************************************************************************)
MaxCalls == 4

MaxLoadRequests == 2

LoadOutcomes == [status : {"ok", "IOError"}, requests : 1..MaxLoadRequests]

Built(what, o) ==
    IF o.status = "ok" THEN [what |-> what, load |-> calls + 1] ELSE Undefined

\* !this.cachedHeader, !this.cachedSequenceRecords[chrom]
AlwaysFalsy(v) == TRUE

Falsy(v) == v = Undefined

\* this.indexData === undefined, this.headerData === undefined
IsUndefined(v) == v = Undefined

SequenceNames == {"seq1", "seq2"}

\* the names getSequenceRecord is called with
RequestedNames == SequenceNames \cup {"seqX", "constructor"}

Artifacts == {"header", "indexData", "headerData"} \cup RequestedNames

ReturnedBy(op, arg, what, status, value, requests) ==
    [op |-> op, arg |-> arg, what |-> what, status |-> status, value |-> value,
     requests |-> requests, before |-> firstLoaded[what]]

Remember(what, value, loaded) ==
    IF loaded /\ firstLoaded[what] = Undefined
    THEN [firstLoaded EXCEPT ![what] = value]
    ELSE firstLoaded

\* BigWigReader.getHeader
GetHeader ==
    /\ calls < MaxCalls
    /\ calls' = calls + 1
    /\ \E o \in LoadOutcomes :
         LET load == Falsy(cachedHeader)
             hdr == IF load THEN Built("header", o) ELSE cachedHeader
         IN  /\ cachedHeader' = hdr
             /\ cCall' = ReturnedBy("getHeader", "", "header",
                                    IF load THEN o.status ELSE "ok", hdr,
                                    IF load THEN o.requests ELSE 0)
             /\ firstLoaded' = Remember("header", hdr, load /\ o.status = "ok")
    /\ UNCHANGED <<cFileType, cachedSequenceRecords, indexData, headerData>>
    /\ UNCHANGED <<decodeVars, envVars, loaderVars, readerVars, extVars>>

\* BigWigReader.getSequenceRecord(chrom), loadSequenceRecord
GetSequenceRecord ==
    /\ calls < MaxCalls
    /\ calls' = calls + 1
    /\ \E chrom \in RequestedNames, oh \in LoadOutcomes,
          os \in LoadOutcomes :
         LET loadH == Falsy(cachedHeader)
             hdr == IF loadH THEN Built("header", oh) ELSE cachedHeader
             reqH == IF loadH THEN oh.requests ELSE 0
             cached == Get(cachedSequenceRecords, chrom)
             loadS == Falsy(cached)
         IN  /\ cachedHeader' = hdr
             /\ IF hdr = Undefined
                THEN /\ cCall' = ReturnedBy("getSequenceRecord", chrom, chrom,
                                            oh.status, Undefined, reqH)
                     /\ UNCHANGED <<cachedSequenceRecords, firstLoaded>>
                ELSE IF cFileType # "TwoBit"
                THEN /\ cCall' = ReturnedBy("getSequenceRecord", chrom, chrom,
                                            "FileFormatError", Undefined, reqH)
                     /\ firstLoaded' = Remember("header", hdr, loadH)
                     /\ UNCHANGED cachedSequenceRecords
                ELSE IF ~loadS
                THEN /\ cCall' = ReturnedBy("getSequenceRecord", chrom, chrom,
                                            "ok", cached, reqH)
                     /\ firstLoaded' = Remember("header", hdr, loadH)
                     /\ UNCHANGED cachedSequenceRecords
                ELSE IF chrom \notin SequenceNames
                THEN /\ cCall' = ReturnedBy("getSequenceRecord", chrom, chrom,
                                            "DataMissingError", Undefined, reqH)
                     /\ firstLoaded' = Remember("header", hdr, loadH)
                     /\ UNCHANGED cachedSequenceRecords
                ELSE LET rec == Built(chrom, os)
                     IN  /\ cachedSequenceRecords' =
                               IF rec = Undefined THEN cachedSequenceRecords
                               ELSE [n \in DOMAIN cachedSequenceRecords \cup {chrom} |->
                                        IF n = chrom THEN rec ELSE cachedSequenceRecords[n]]
                         /\ cCall' = ReturnedBy("getSequenceRecord", chrom, chrom,
                                                os.status, rec, reqH + os.requests)
                         /\ firstLoaded' =
                               [firstLoaded EXCEPT
                                  !["header"] = IF loadH /\ @ = Undefined THEN hdr ELSE @,
                                  ![chrom] = IF @ = Undefined THEN rec ELSE @]
    /\ UNCHANGED <<cFileType, indexData, headerData>>
    /\ UNCHANGED <<decodeVars, envVars, loaderVars, readerVars, extVars>>

\* BamReader.getIndexData
GetIndexData ==
    /\ calls < MaxCalls
    /\ calls' = calls + 1
    /\ \E o \in LoadOutcomes :
         LET load == IsUndefined(indexData)
             idx == IF load THEN Built("indexData", o) ELSE indexData
         IN  /\ indexData' = idx
             /\ cCall' = ReturnedBy("getIndexData", "", "indexData",
                                    IF load THEN o.status ELSE "ok", idx,
                                    IF load THEN o.requests ELSE 0)
             /\ firstLoaded' = Remember("indexData", idx, load /\ o.status = "ok")
    /\ UNCHANGED <<cFileType, cachedHeader, cachedSequenceRecords, headerData>>
    /\ UNCHANGED <<decodeVars, envVars, loaderVars, readerVars, extVars>>

\* BamReader.getHeaderData: the index is asked for only when the header is not held
GetHeaderData ==
    /\ calls < MaxCalls
    /\ calls' = calls + 1
    /\ \E oi \in LoadOutcomes, oh \in LoadOutcomes :
         IF ~IsUndefined(headerData)
         THEN /\ cCall' = ReturnedBy("getHeaderData", "", "headerData", "ok", headerData, 0)
              /\ UNCHANGED <<indexData, headerData, firstLoaded>>
         ELSE LET loadI == IsUndefined(indexData)
                  idx == IF loadI THEN Built("indexData", oi) ELSE indexData
                  reqI == IF loadI THEN oi.requests ELSE 0
                  hdr == IF idx = Undefined THEN Undefined ELSE Built("headerData", oh)
              IN  /\ indexData' = idx
                  /\ headerData' = hdr
                  /\ cCall' = IF idx = Undefined
                              THEN ReturnedBy("getHeaderData", "", "headerData",
                                              oi.status, Undefined, reqI)
                              ELSE ReturnedBy("getHeaderData", "", "headerData",
                                              oh.status, hdr, reqI + oh.requests)
                  /\ firstLoaded' =
                        [firstLoaded EXCEPT
                           !["indexData"] = IF loadI /\ @ = Undefined THEN idx ELSE @,
                           !["headerData"] = IF @ = Undefined THEN hdr ELSE @]
    /\ UNCHANGED <<cFileType, cachedHeader, cachedSequenceRecords>>
    /\ UNCHANGED <<decodeVars, envVars, loaderVars, readerVars, extVars>>

NoCall ==
    [op |-> "none", arg |-> "", what |-> "header", status |-> "none",
     value |-> Undefined, requests |-> 0, before |-> Undefined]

\* new BigWigReader(dataLoader), new BamReader(bamDataLoader, bamIndexDataLoader)
NewReaders ==
    /\ cachedHeader = Undefined
    /\ cachedSequenceRecords = <<>>
    /\ indexData = Undefined
    /\ headerData = Undefined
    /\ calls = 0
    /\ firstLoaded = [a \in Artifacts |-> Undefined]
    /\ cCall = NoCall

CacheIdle == cFileType = "none" /\ NewReaders

CacheInit == cFileType \in {"BigWig", "TwoBit"} /\ NewReaders

(***************************************************************************)
(* BigWig / BigBed files as loadData sees them: an R+ tree at treeOffset   *)
(* (a 48-byte header, then nodes: a 4-byte node header and count items of  *)
(* 32 bytes in a leaf node, 24 bytes in a non-leaf node) and the data      *)
(* blocks the leaf items point to.                                         *)
(***************************************************************************)
IDX_MAGIC == 610839776

RPTREE_HEADER_SIZE == 48

RPTREE_NODE_LEAF_ITEM_SIZE == 32

RPTREE_NODE_CHILD_ITEM_SIZE == 24

NodeHeaderSize == 4

LeafItem(sc, sb, ec, eb, dataOffset, dataSize) ==
    [startChrom |-> sc, startBase |-> sb, endChrom |-> ec, endBase |-> eb,
     dataOffset |-> dataOffset, dataSize |-> dataSize]

ChildItem(sc, sb, ec, eb, childOffset) ==
    [startChrom |-> sc, startBase |-> sb, endChrom |-> ec, endBase |-> eb,
     childOffset |-> childOffset]

\* the records of a file: each carries a number (value, rest or validCount)
\* that no other record of the file carries
FileRecord(kind, c, s, e, n) ==
    CASE kind = "wig"  -> [start |-> s, end |-> e, value |-> n]
      [] kind = "bed"  -> [chromIndex |-> c, start |-> s, end |-> e, rest |-> n, restLen |-> 1]
      [] kind = "zoom" -> [chromIndex |-> c, start |-> s, end |-> e, validCount |-> n]

\* a data block of two records on chromosome c, starting at base s
FileBlock(kind, c, s, n) ==
    LET recs == <<FileRecord(kind, c, s, s + 1, n), FileRecord(kind, c, s + 1, s + 2, n + 1)>>
    IN  IF kind = "wig"
        THEN [chromIndex |-> c, startBase |-> s, itemStep |-> 0, itemSpan |-> 0,
              type |-> 1, items |-> recs]
        ELSE [records |-> recs]

Stored(zipped, block) == [zipped |-> zipped, block |-> block]

\* the three data blocks of every file, at offset d, 8 bytes each on disk
FileBlocks(kind, zipped, d) ==
    (d :> Stored(zipped, FileBlock(kind, 0, 0, 1)))
    @@ (d + 8 :> Stored(zipped, FileBlock(kind, 0, 2, 3)))
    @@ (d + 16 :> Stored(zipped, FileBlock(kind, 1, 0, 5)))

\* a tree of one leaf node with three items
FlatFile(kind, zipped, magic) ==
    LET t == 8
        root == t + RPTREE_HEADER_SIZE
        d == root + NodeHeaderSize + 3 * RPTREE_NODE_LEAF_ITEM_SIZE
    IN  [kind |-> kind, uncompressBuffSize |-> IF zipped THEN 1 ELSE 0, magic |-> magic,
         treeOffset |-> t, zoomLevels |-> 1,
         nodes |-> (root :> [isLeaf |-> TRUE,
                             items |-> <<LeafItem(0, 0, 0, 2, d, 8),
                                         LeafItem(0, 2, 0, 4, d + 8, 8),
                                         LeafItem(1, 0, 1, 2, d + 16, 8)>>]),
         blocks |-> FileBlocks(kind, zipped, d),
         len |-> d + 24]

\* a tree of a root with two leaf nodes, of two items and of one
DeepFile(kind, zipped, magic) ==
    LET t == 8
        root == t + RPTREE_HEADER_SIZE
        a == root + NodeHeaderSize + 2 * RPTREE_NODE_CHILD_ITEM_SIZE
        b == a + NodeHeaderSize + 2 * RPTREE_NODE_LEAF_ITEM_SIZE
        d == b + NodeHeaderSize + RPTREE_NODE_LEAF_ITEM_SIZE
    IN  [kind |-> kind, uncompressBuffSize |-> IF zipped THEN 1 ELSE 0, magic |-> magic,
         treeOffset |-> t, zoomLevels |-> 1,
         nodes |-> (root :> [isLeaf |-> FALSE,
                             items |-> <<ChildItem(0, 0, 0, 4, a),
                                         ChildItem(1, 0, 1, 2, b)>>])
                   @@ (a :> [isLeaf |-> TRUE,
                             items |-> <<LeafItem(0, 0, 0, 2, d, 8),
                                         LeafItem(0, 2, 0, 4, d + 8, 8)>>])
                   @@ (b :> [isLeaf |-> TRUE,
                             items |-> <<LeafItem(1, 0, 1, 2, d + 16, 8)>>]),
         blocks |-> FileBlocks(kind, zipped, d),
         len |-> d + 24]

\* the file f with a last data block that is not a zlib stream
CorruptTail(f) == [f EXCEPT !.blocks[f.len - 8] = Stored(FALSE, @.block)]

\* the file f with a root whose first item spans less than the leaf items
\* of the node it points at
ShrunkChild(f) ==
    [f EXCEPT !.nodes[f.treeOffset + RPTREE_HEADER_SIZE].items[1].endBase = 1]

Files ==
    {FlatFile(kind, FALSE, IDX_MAGIC) : kind \in {"wig", "bed", "zoom"}}
    \cup {DeepFile(kind, TRUE, IDX_MAGIC) : kind \in {"wig", "bed", "zoom"}}
    \cup {FlatFile("wig", FALSE, 0), CorruptTail(DeepFile("bed", TRUE, IDX_MAGIC)),
          ShrunkChild(DeepFile("wig", TRUE, IDX_MAGIC))}

(***************************************************************************)
(* BinaryParser over the bytes a load returned.  A byte is written as its  *)
(* file offset, so what is parsed is what the file holds at the offsets    *)
(* the loader handed back.                                                 *)
(***************************************************************************)
ParseMagic(data) ==
    IF Len(data) >= 4 /\ data[1] = file.treeOffset THEN file.magic ELSE 0

ParseNodeHeader(data) ==
    IF Len(data) = NodeHeaderSize /\ data[1] \in DOMAIN file.nodes
    THEN [isLeaf |-> file.nodes[data[1]].isLeaf, count |-> Len(file.nodes[data[1]].items)]
    ELSE [isLeaf |-> FALSE, count |-> 0]

ParseNodeItems(data, count) ==
    IF count > 0 /\ data # <<>> /\ (data[1] - NodeHeaderSize) \in DOMAIN file.nodes
    THEN SubSeq(file.nodes[data[1] - NodeHeaderSize].items, 1, count)
    ELSE <<>>

EmptyBlock == Stored(FALSE, [records |-> <<>>])

ParseBlock(data) ==
    IF data # <<>> /\ data[1] \in DOMAIN file.blocks THEN file.blocks[data[1]] ELSE EmptyBlock

\* pako inflate: fails on bytes that are not a zlib stream
Inflate(stored) ==
    IF stored.zipped THEN [status |-> "ok", block |-> stored.block]
    ELSE [status |-> "Error", block |-> stored.block]

(***************************************************************************)
(* header.chromTree.chromToId[name], an object literal filled by           *)
(* buildChromTree, and the comparisons of loadData and of the tree walk on *)
(* what the lookup yields.                                                 *)
(***************************************************************************)
ChromIndex(name) ==
    IF name \in DOMAIN chromToId THEN [is |-> "number", n |-> chromToId[name]]
    ELSE IF name \in ObjectPrototypeKeys THEN [is |-> "function", n |-> 0]
    ELSE [is |-> "undefined", n |-> 0]

\* index > n, index < n, index == n for a number n
Gt(index, n) == index.is = "number" /\ index.n > n

Lt(index, n) == index.is = "number" /\ index.n < n

Eq(index, n) == index.is = "number" /\ index.n = n

overlapsAlways(item, q) == TRUE

overlaps(item, q) ==
    /\ \/ Gt(q.eci, item.startChrom)
       \/ (Eq(q.eci, item.startChrom) /\ q.endBase >= item.startBase)
    /\ \/ Lt(q.sci, item.endChrom)
       \/ (Eq(q.sci, item.endChrom) /\ q.startBase <= item.endBase)

(***************************************************************************)
(* loadLeafNodesForRPNode.  The recursion is a stack of frames, one per    *)
(* node being read; Resume runs the for loop of the top frame up to the    *)
(* next await (the load of a child's node header) or to the return of the  *)
(* outermost call.                                                         *)
(***************************************************************************)
Frame(offset) ==
    [offset |-> offset, isLeaf |-> FALSE, count |-> 0, items |-> <<>>, i |-> 0,
     leafNodes |-> <<>>]

\* leafNodes.push(...more)
PushAllFirst(leafNodes, more) == more \o leafNodes

PushAll(leafNodes, more) == leafNodes \o more

RECURSIVE Resume(_, _)
Resume(stack, q) ==
    LET top == stack[Len(stack)]
        below == SubSeq(stack, 1, Len(stack) - 1)
    IN  IF top.i >= top.count
        THEN IF Len(stack) = 1
             THEN [kind |-> "return", stack |-> <<>>, leafNodes |-> top.leafNodes]
             ELSE LET parent == stack[Len(stack) - 1]
                  IN  Resume(Append(SubSeq(below, 1, Len(below) - 1),
                                    [parent EXCEPT
                                       !.leafNodes = PushAll(@, top.leafNodes),
                                       !.i = @ + 1]), q)
        ELSE LET item == top.items[top.i + 1]
             IN  IF top.isLeaf
                 THEN Resume(Append(below,
                                    [top EXCEPT
                                       !.leafNodes = IF overlaps(item, q)
                                                     THEN PushAll(@, <<item>>) ELSE @,
                                       !.i = @ + 1]), q)
                 ELSE IF overlaps(item, q)
                 THEN [kind |-> "await", stack |-> Append(stack, Frame(item.childOffset)),
                       leafNodes |-> <<>>]
                 ELSE Resume(Append(below, [top EXCEPT !.i = @ + 1]), q)

(***************************************************************************)
(* BigWigReader.loadData under readData and streamData.                    *)
(***************************************************************************)
\* the loadFunction of readData: data.push(...d)
ReadPush(data, d) == data \o d

\* the loadFunction of streamData: d.forEach(el => stream.push(el))
StreamPushButLast(pushed, d) ==
    pushed \o (IF d = <<>> THEN d ELSE SubSeq(d, 1, Len(d) - 1))

StreamPush(pushed, d) == pushed \o d

NewRead(phase) ==
    [pc |-> "ready", phase |-> phase, q |-> <<>>, stack |-> <<>>, leafNodes |-> <<>>,
     next |-> 1, out |-> <<>>, ended |-> FALSE, status |-> "none", missing |-> "",
     loads |-> 0]

\* the call throws: loadData is left, the loader is left as it is
Throws(status, name) ==
    /\ rd' = [rd EXCEPT !.pc = "done", !.status = status, !.missing = name]
    /\ UNCHANGED loaderVars

\* load(start, size) on the BufferedDataLoader of the call
BeginLoad(start, size) ==
    \/ LoadFromBuffer(start, size)
    \/ LoadMiss(start, size)
    \/ StreamMiss(start, size)

\* the head of readZoomData / streamZoomData and of loadData, up to
\* new BufferedDataLoader(this.dataLoader, this.bufferSize, streamMode)
Enter(r, mode) ==
    LET sci == ChromIndex(query.startChrom)
        eci == ChromIndex(query.endChrom)
    IN  IF file.kind = "zoom" /\ query.zoomLevelIndex \notin 0..(file.zoomLevels - 1)
        THEN /\ rd' = [r EXCEPT !.pc = "done", !.status = "FileFormatError"]
             /\ UNCHANGED loaderVars
        ELSE IF sci.is = "undefined"
        THEN /\ rd' = [r EXCEPT !.pc = "done", !.status = "DataMissingError",
                                !.missing = query.startChrom]
             /\ UNCHANGED loaderVars
        ELSE IF eci.is = "undefined"
        THEN /\ rd' = [r EXCEPT !.pc = "done", !.status = "DataMissingError",
                                !.missing = query.endChrom]
             /\ UNCHANGED loaderVars
        ELSE /\ rd' = [r EXCEPT !.pc = "new",
                                !.q = [sci |-> sci, startBase |-> query.startBase,
                                       eci |-> eci, endBase |-> query.endBase]]
             /\ streamMode' = mode
             /\ buffer' = UndefinedBuffer
             /\ stream' = NoStream
             /\ liveStreams' = 0
             /\ lock' = NoLock
             /\ call' = IdleCall
             /\ UNCHANGED bufferSize

\* readBigWigData / readBigBedData / readZoomData
ReadData ==
    /\ rd.pc = "ready" /\ rd.phase = "read"
    /\ Enter(rd, FALSE)
    /\ UNCHANGED <<file, query, readOut>>
    /\ UNCHANGED <<decodeVars, envVars, cacheVars, extVars>>

\* streamBigWigData / streamBigBedData / streamZoomData, called with the
\* arguments of the read* call once that has returned or thrown
StreamDataCall ==
    /\ rd.pc = "done" /\ rd.phase = "read"
    /\ readOut' = [status |-> rd.status, data |-> rd.out]
    /\ Enter(NewRead("stream"), TRUE)
    /\ UNCHANGED <<file, query>>
    /\ UNCHANGED <<decodeVars, envVars, cacheVars, extVars>>

\* bufferedLoader.load(treeOffset, RPTREE_HEADER_SIZE)
LoadMagic ==
    /\ rd.pc = "new"
    /\ BeginLoad(file.treeOffset, RPTREE_HEADER_SIZE)
    /\ rd' = [rd EXCEPT !.pc = "magic", !.loads = @ + 1]
    /\ UNCHANGED <<file, query, readOut>>
    /\ UNCHANGED <<decodeVars, cacheVars, extVars>>

Settled == call.pc = "idle" /\ call.res.status # "none"

\* the magic number is checked, the walk starts at the root node
AfterMagic ==
    /\ rd.pc = "magic" /\ Settled
    /\ IF call.res.status # "ok" THEN Throws(call.res.status, "")
       ELSE IF IDX_MAGIC # ParseMagic(call.res.data) THEN Throws("FileFormatError", "")
       ELSE LET rootNodeOffset == file.treeOffset + RPTREE_HEADER_SIZE
            IN  /\ BeginLoad(rootNodeOffset, NodeHeaderSize)
                /\ rd' = [rd EXCEPT !.pc = "nodeHeader", !.loads = @ + 1,
                                    !.stack = <<Frame(rootNodeOffset)>>]
    /\ UNCHANGED <<file, query, readOut>>
    /\ UNCHANGED <<decodeVars, envVars, cacheVars, extVars>>

\* loadLeafNodesForRPNode after the node header has been loaded
AfterNodeHeader ==
    /\ rd.pc = "nodeHeader" /\ Settled
    /\ IF call.res.status # "ok" THEN Throws(call.res.status, "")
       ELSE LET h == ParseNodeHeader(call.res.data)
                n == Len(rd.stack)
                top == rd.stack[n]
                bytesRequired == h.count * (IF h.isLeaf THEN RPTREE_NODE_LEAF_ITEM_SIZE
                                            ELSE RPTREE_NODE_CHILD_ITEM_SIZE)
            IN  /\ BeginLoad(top.offset + NodeHeaderSize, bytesRequired)
                /\ rd' = [rd EXCEPT !.pc = "nodeData", !.loads = @ + 1,
                                    !.stack[n] = [top EXCEPT !.isLeaf = h.isLeaf,
                                                             !.count = h.count]]
    /\ UNCHANGED <<file, query, readOut>>
    /\ UNCHANGED <<decodeVars, envVars, cacheVars, extVars>>

\* the end of loadData: readData returns its array, streamData pushes null
Returns(r) ==
    /\ rd' = [r EXCEPT !.pc = "done", !.status = "ok", !.ended = (r.phase = "stream")]
    /\ UNCHANGED loaderVars

\* the leaf loop of loadData: the next leaf's block is loaded, or loadData ends
NextLeaf(r) ==
    IF r.next > Len(r.leafNodes) THEN Returns(r)
    ELSE /\ BeginLoad(r.leafNodes[r.next].dataOffset, r.leafNodes[r.next].dataSize)
         /\ rd' = [r EXCEPT !.pc = "leaf", !.loads = @ + 1]

\* loadLeafNodesForRPNode after the node's items have been loaded
AfterNodeData ==
    /\ rd.pc = "nodeData" /\ Settled
    /\ IF call.res.status # "ok" THEN Throws(call.res.status, "")
       ELSE LET n == Len(rd.stack)
                top == rd.stack[n]
                items == ParseNodeItems(call.res.data, top.count)
                stack == [rd.stack EXCEPT ![n] = [top EXCEPT !.items = items,
                                                             !.count = Len(items)]]
                step == Resume(stack, rd.q)
            IN  IF step.kind = "await"
                THEN /\ BeginLoad(step.stack[Len(step.stack)].offset, NodeHeaderSize)
                     /\ rd' = [rd EXCEPT !.pc = "nodeHeader", !.loads = @ + 1,
                                         !.stack = step.stack]
                ELSE NextLeaf([rd EXCEPT !.stack = <<>>, !.leafNodes = step.leafNodes,
                                         !.next = 1])
    /\ UNCHANGED <<file, query, readOut>>
    /\ UNCHANGED <<decodeVars, envVars, cacheVars, extVars>>

\* the body of the leaf loop after the leaf's block has been loaded
AfterLeafData ==
    /\ rd.pc = "leaf" /\ Settled
    /\ IF call.res.status # "ok" THEN Throws(call.res.status, "")
       ELSE LET stored == ParseBlock(call.res.data)
                leafData == IF file.uncompressBuffSize > 0 THEN Inflate(stored)
                            ELSE [status |-> "ok", block |-> stored.block]
                q == [sc |-> rd.q.sci.n, sb |-> rd.q.startBase,
                      ec |-> rd.q.eci.n, eb |-> rd.q.endBase]
                leafDecodedData == Decode(file.kind, leafData.block, q)
            IN  IF leafData.status # "ok" THEN Throws(leafData.status, "")
                ELSE NextLeaf([rd EXCEPT
                                 !.out = IF rd.phase = "read"
                                         THEN ReadPush(@, leafDecodedData)
                                         ELSE StreamPush(@, leafDecodedData),
                                 !.next = @ + 1])
    /\ UNCHANGED <<file, query, readOut>>
    /\ UNCHANGED <<decodeVars, envVars, cacheVars, extVars>>

(***************************************************************************)
(* The calls of the reader specification.                                  *)
(***************************************************************************)
ReaderChunk == 40

ReaderBufferSizes == {64, 256}

ReaderNames == {"chr1", "chr2", "chrX", "constructor"}

ReaderBases == {0, 2, 3}

ReaderQueries ==
    [startChrom : ReaderNames, startBase : ReaderBases,
     endChrom : ReaderNames, endBase : ReaderBases, zoomLevelIndex : {0, 1}]

NoReadOut == [status |-> "none", data |-> <<>>]

ReaderInit ==
    /\ file \in Files
    /\ query \in {q \in ReaderQueries : file.kind # "zoom" => q.zoomLevelIndex = 0}
    /\ rd = NewRead("read")
    /\ readOut = NoReadOut
    /\ fileLen = file.len
    /\ tailPolicy \in {"outOfRange", "truncate"}
    /\ hasLoadStream \in BOOLEAN
    /\ chunkSizes = {ReaderChunk}
    /\ legacy = FALSE
    /\ \E size \in ReaderBufferSizes : NewLoader(FALSE, size)

ReaderIdle ==
    /\ file = <<>>
    /\ query = <<>>
    /\ rd = <<>>
    /\ readOut = <<>>

(***************************************************************************)
(* The BAM index (BAI) of one reference: bins of raw chunks and the linear *)
(* index, and blocksForRange over it.  Virtual offsets are kept as the 8   *)
(* bytes the parser read; the three top bytes of a block position are 0 in *)
(* every index here, so block positions stay below 2^24.                   *)
(***************************************************************************)
\* the 8 bytes readVirtualOffset reads for (blockPosition, dataPosition)
RawVO(blockPosition, dataPosition) ==
    <<dataPosition % 256, (dataPosition \div 256) % 256,
      blockPosition % 256, (blockPosition \div 256) % 256,
      (blockPosition \div 65536) % 256, 0, 0, 0>>

\* raw[7] and raw[6] of the source (weights 2^40 and 2^32) are the zero bytes
\* of RawVO and add nothing
inflateVirtualOffset(raw) ==
    [blockPosition |-> raw[6] * 16777216 + raw[5] * 65536 + raw[4] * 256 + raw[3],
     dataPosition |-> raw[2] * 256 + raw[1]]

inflateChunk(raw) ==
    [start |-> inflateVirtualOffset(raw.start), end |-> inflateVirtualOffset(raw.end)]

isVOLessThan(first, second) ==
    \/ first.blockPosition < second.blockPosition
    \/ (first.blockPosition = second.blockPosition
        /\ first.dataPosition < second.dataPosition)

\* x >> k on a non-negative 32-bit integer
Shr(x, k) == x \div (2 ^ k)

Max(a, b) == IF a > b THEN a ELSE b

\* the values k = from, from + 1, ..., to pushed by one for loop
BinsFromTo(from, to) == [i \in 1..(to - from + 1) |-> from + i - 1]

Reg2BinsEndCap == 2 ^ 29

\* if (end >= 1 << 29) end = 1 << 29
CapEndNever(end) == end

CapEnd(end) == IF end >= Reg2BinsEndCap THEN Reg2BinsEndCap ELSE end

reg2bins(start, end) ==
    LET e == CapEnd(end) - 1
    IN  <<0>>
        \o BinsFromTo(1 + Shr(start, 26), 1 + Shr(e, 26))
        \o BinsFromTo(9 + Shr(start, 23), 9 + Shr(e, 23))
        \o BinsFromTo(73 + Shr(start, 20), 73 + Shr(e, 20))
        \o BinsFromTo(585 + Shr(start, 17), 585 + Shr(e, 17))
        \o BinsFromTo(4681 + Shr(start, 14), 4681 + Shr(e, 14))

Includes(list, x) == \E i \in DOMAIN list : list[i] = x

\* the comparator handed to chunks.sort
CompareChunks(c0, c1) ==
    LET dif == c0.start.blockPosition - c1.start.blockPosition
    IN  IF dif # 0 THEN dif ELSE c0.start.dataPosition - c1.start.dataPosition

RECURSIVE InsertChunk(_, _)
InsertChunk(sorted, c) ==
    IF sorted = <<>> THEN <<c>>
    ELSE IF CompareChunks(Head(sorted), c) <= 0
    THEN <<Head(sorted)>> \o InsertChunk(Tail(sorted), c)
    ELSE <<c>> \o sorted

\* chunks.sort(comparator): a stable sort
RECURSIVE SortChunks(_)
SortChunks(chunks) ==
    IF chunks = <<>> THEN <<>>
    ELSE InsertChunk(SortChunks(SubSeq(chunks, 1, Len(chunks) - 1)), chunks[Len(chunks)])

NoLowest == [defined |-> FALSE, vo |-> [blockPosition |-> 0, dataPosition |-> 0]]

Lowest(vo) == [defined |-> TRUE, vo |-> vo]

\* lowest !== undefined && isVOLessThan(chunk.end, lowest)
EndsBeforeLowestNever(end, lowest) == FALSE

EndsBeforeLowest(end, lowest) == lowest.defined /\ isVOLessThan(end, lowest.vo)

MergeDistance == 65000

\* (chunk.start.blockPosition - currentMergedChunk.end.blockPosition) < 65000
WithinMergeDistanceNever(start, currentEnd) == FALSE

WithinMergeDistance(start, currentEnd) ==
    start.blockPosition - currentEnd.blockPosition < MergeDistance

\* isVOLessThan(currentMergedChunk.end, chunk.end): the merged chunk is to
\* end where the chunk taken in ends
EndsBeforeNever(currentEnd, end) == FALSE

EndsBefore(currentEnd, end) == isVOLessThan(currentEnd, end)

\* the for loop of optimizeChunks from the k-th sorted chunk on.  The chunks
\* are objects: merged holds the positions of the pushed ones, ends the end
\* each object has by now, cur the position of currentMergedChunk (0 while
\* it is undefined).
RECURSIVE MergeLoop(_, _, _, _)
MergeLoop(sorted, lowest, k, acc) ==
    IF k > Len(sorted) THEN acc
    ELSE IF EndsBeforeLowest(acc.ends[k], lowest) THEN MergeLoop(sorted, lowest, k + 1, acc)
    ELSE LET first == IF acc.cur = 0
                      THEN [acc EXCEPT !.cur = k, !.merged = Append(@, k)]
                      ELSE acc
             currentEnd == first.ends[first.cur]
         IN  IF WithinMergeDistance(sorted[k].start, currentEnd)
             THEN MergeLoop(sorted, lowest, k + 1,
                            IF EndsBefore(currentEnd, first.ends[k])
                            THEN [first EXCEPT !.ends[first.cur] = first.ends[k]]
                            ELSE first)
             ELSE MergeLoop(sorted, lowest, k + 1,
                            [first EXCEPT !.cur = k, !.merged = Append(@, k)])

optimizeChunks(chunks, lowest) ==
    IF Len(chunks) = 0 THEN <<>>
    ELSE LET sorted == SortChunks(chunks)
             acc == MergeLoop(sorted, lowest, 1,
                              [merged |-> <<>>, cur |-> 0,
                               ends |-> [k \in DOMAIN sorted |-> sorted[k].end]])
         IN  [m \in DOMAIN acc.merged |->
                [start |-> sorted[acc.merged[m]].start, end |-> acc.ends[acc.merged[m]]]]

\* for (let bin in binIndex): the keys in ascending order, the chunks of the
\* overlapping bins inflated and concatenated
RECURSIVE ChunksOfBins(_, _, _)
ChunksOfBins(binIndex, bins, overlappingBins) ==
    IF bins = {} THEN <<>>
    ELSE LET bin == CHOOSE b \in bins : \A other \in bins : b <= other
             inflatedChunks == [c \in DOMAIN binIndex[bin] |-> inflateChunk(binIndex[bin][c])]
         IN  (IF Includes(overlappingBins, bin) THEN inflatedChunks ELSE <<>>)
             \o ChunksOfBins(binIndex, bins \ {bin}, overlappingBins)

\* the loop over the linear index from window i on: the smallest offset met
RECURSIVE LowestFrom(_, _, _, _)
LowestFrom(linearIndex, i, maxLin, lowest) ==
    IF i > maxLin THEN lowest
    ELSE LET offset == inflateVirtualOffset(linearIndex[i + 1])
         IN  LowestFrom(linearIndex, i + 1, maxLin,
                        IF ~lowest.defined \/ isVOLessThan(offset, lowest.vo)
                        THEN Lowest(offset) ELSE lowest)

Returned(chunks) == [status |-> "ok", chunks |-> chunks]

Thrown(error) == [status |-> error, chunks |-> <<>>]

\* blocksForRange(refData, start, end).  linearIndex[i] is undefined for a
\* window i outside the linear index, and inflateVirtualOffset reads raw[1]
\* of it: a TypeError.
blocksForRange(refData, start, end) ==
    LET overlappingBins == reg2bins(start, end)
        binIndex == refData.binIndex
        linearIndex == refData.linearIndex
        allChunks == ChunksOfBins(binIndex, DOMAIN binIndex, overlappingBins)
        minLin == Min(Shr(start, 14), Len(linearIndex) - 1)
        maxLin == Max(Shr(end, 14), Len(linearIndex) - 1)
    IN  IF \E i \in minLin..maxLin : i \notin 0..(Len(linearIndex) - 1)
        THEN Thrown("TypeError")
        ELSE Returned(optimizeChunks(allChunks,
                                     LowestFrom(linearIndex, minLin, maxLin, NoLowest)))

(***************************************************************************)
(* The indexes and regions blocksForRange is called on.                    *)
(***************************************************************************)
VO(blockPosition, dataPosition) ==
    [blockPosition |-> blockPosition, dataPosition |-> dataPosition]

RawChunk(startBlock, startData, endBlock, endData) ==
    [start |-> RawVO(startBlock, startData), end |-> RawVO(endBlock, endData)]

\* chunks of blocks less than, and more than, 65000 bytes apart
IndexChunks ==
    {RawChunk(0, 0, 0, 1), RawChunk(0, 1, 65024, 0), RawChunk(65024, 0, 65024, 1),
     RawChunk(65536, 0, 65536, 1), RawChunk(65536, 0, 131072, 0)}

IndexBins == {0, 4681, 4682}

BinChunks(bin) ==
    IF bin = 0 THEN {<<c>> : c \in {RawChunk(0, 0, 0, 1), RawChunk(65536, 0, 65536, 1)}}
    ELSE IF bin = 4681 THEN {<<c>> : c \in IndexChunks} \cup (IndexChunks \X IndexChunks)
    ELSE {<<c>> : c \in IndexChunks}

\* bin 4681 holds one or two chunks, the other bins one
BinIndexes ==
    UNION {{x \in [bins -> UNION {BinChunks(b) : b \in IndexBins}] :
               \A b \in bins : x[b] \in BinChunks(b)} : bins \in SUBSET IndexBins}

LinearOffsets == {RawVO(0, 0), RawVO(0, 1), RawVO(65024, 1)}

LinearIndexes == {<<>>} \cup {<<o>> : o \in LinearOffsets} \cup (LinearOffsets \X LinearOffsets)

RefIndexes ==
    {[binIndex |-> b, linearIndex |-> l] :
        b \in BinIndexes, l \in LinearIndexes}

IndexQueries ==
    {[start |-> 0, end |-> 1], [start |-> 0, end |-> 16384], [start |-> 0, end |-> 20000],
     [start |-> 16384, end |-> 32767], [start |-> 16384, end |-> 40000]}

NoQuery == [start |-> 0, end |-> 0]

NoBlocks == [status |-> "none", chunks |-> <<>>]

IndexInit ==
    /\ refIndex \in RefIndexes
    /\ ixQuery = NoQuery
    /\ ixOut = NoBlocks

IndexIdle ==
    /\ refIndex = <<>>
    /\ ixQuery = NoQuery
    /\ ixOut = NoBlocks

\* one call of blocksForRange on the parsed index
CallBlocksForRange ==
    /\ \E q \in IndexQueries :
          /\ ixQuery' = q
          /\ ixOut' = blocksForRange(refIndex, q.start, q.end)
    /\ UNCHANGED refIndex
    /\ UNCHANGED <<coreVars, notIndex>>

(***************************************************************************)
(* BinaryParser over a buffer of bytes (little-endian, the default).  A    *)
(* buffer is a sequence of bytes; position p addresses data[p + 1].        *)
(***************************************************************************)
GetByte(data, p) == data[p + 1]

GetUShort(data, p) == data[p + 1] + 256 * data[p + 2]

\* getInt32: the top byte carries the sign
GetInt(data, p) ==
    data[p + 1] + 256 * data[p + 2] + 65536 * data[p + 3]
    + 16777216 * (IF data[p + 4] >= 128 THEN data[p + 4] - 256 ELSE data[p + 4])

\* getUint32, for values below 2^31
GetUInt(data, p) ==
    data[p + 1] + 256 * data[p + 2] + 65536 * data[p + 3] + 16777216 * data[p + 4]

\* getString(len): bytes up to a 0 byte, or until len characters were read;
\* a read past the buffer is a RangeError of the DataView
RECURSIVE GetString(_, _, _, _)
GetString(data, p, len, s) ==
    IF p >= Len(data) THEN [ok |-> FALSE, s |-> s, position |-> p]
    ELSE LET c == GetByte(data, p)
         IN  IF c = 0 THEN [ok |-> TRUE, s |-> s, position |-> p + 1]
             ELSE IF len # 0 /\ Len(s) + 1 = len
             THEN [ok |-> TRUE, s |-> Append(s, c), position |-> p + 1]
             ELSE GetString(data, p + 1, len, Append(s, c))

(***************************************************************************)
(* readBamFeatures: the alignment records of an uncompressed buffer.       *)
(***************************************************************************)
CIGAR_DECODER == <<"M", "I", "D", "N", "S", "H", "P", "=", "X">>

SEQ_CONSUMING_CIGAR_OPS == {"M", "I", "S", "=", "X"}

REF_CONSUMING_CIGAR_OPS == {"M", "D", "N", "=", "X"}

SEQ_DECODER ==
    <<"=", "A", "C", "M", "G", "R", "S", "V", "T", "W", "Y", "H", "K", "D", "B", "N">>

\* String.charAt: the empty string past the end
CharAt(decoder, i) == IF i + 1 \in DOMAIN decoder THEN decoder[i + 1] ELSE ""

\* isFlagged(flags, BamAlignmentFlag.READ_STRAND), READ_STRAND = 0x10
IsReadStrand(flags) == (flags \div 16) % 2 = 1

\* the loop that builds the CIGAR from the i-th operation on
RECURSIVE CigarFrom(_, _, _, _, _)
CigarFrom(data, p, i, numCigarOps, acc) ==
    IF i >= numCigarOps THEN acc
    ELSE LET rawCigar == GetUInt(data, p + 4 * i)
             opLen == rawCigar \div 16
             op == CharAt(CIGAR_DECODER, rawCigar % 16)
         IN  CigarFrom(data, p, i + 1, numCigarOps,
                       [cigarOps |-> Append(acc.cigarOps,
                                            [opLen |-> opLen, op |-> op,
                                             seqOffset |-> acc.seqOffset]),
                        seqOffset |-> IF op \in SEQ_CONSUMING_CIGAR_OPS
                                      THEN acc.seqOffset + opLen ELSE acc.seqOffset,
                        lengthOnRef |-> IF op \in REF_CONSUMING_CIGAR_OPS
                                        THEN acc.lengthOnRef + opLen ELSE acc.lengthOnRef])

\* how often the body of  for (i = 0; i < (seqLen + 1) / 2; i++)  runs: the
\* bound is not rounded, so it is the next integer above seqLen / 2
SeqBytesRead(seqLen) == IF seqLen < 0 THEN 0 ELSE (seqLen + 2) \div 2

\* the two characters pushed for each byte read
SeqChars(data, p, count) ==
    [k \in 1..(2 * count) |->
        LET seqByte == GetByte(data, p + ((k - 1) \div 2))
        IN  IF k % 2 = 1 THEN CharAt(SEQ_DECODER, seqByte \div 16)
            ELSE CharAt(SEQ_DECODER, seqByte % 16)]

\* Array.slice(0, n)
SliceTo(s, n) == SubSeq(s, 1, Min(Len(s), IF n < 0 THEN 0 ELSE n))

Alignments(list) == [status |-> "ok", alignments |-> list]

DecodeThrows(error) == [status |-> error, alignments |-> <<>>]

\* refId !== blockRefID and the range test of the filter
OutsideQueryNever(blockRefID, pos, seqLen, refId, bpStart, bpEnd) == FALSE

OutsideQuery(blockRefID, pos, seqLen, refId, bpStart, bpEnd) ==
    blockRefID = -1 \/ refId # blockRefID \/ pos > bpEnd \/ pos + seqLen < bpStart

\* the while loop of readBamFeatures with the parser at position.  An
\* alignment carries blockRefID besides the fields of the source, which put
\* the chr of the query in its place.
RECURSIVE FeaturesFrom(_, _, _, _, _, _, _)
FeaturesFrom(data, position, refId, chr, bpStart, bpEnd, alignments) ==
    IF position >= Len(data) THEN Alignments(alignments)
    ELSE IF position + 4 > Len(data) THEN DecodeThrows("RangeError")
    ELSE
    LET blockSize == GetInt(data, position)
        p == position + 4
        blockEnd == p + blockSize
    IN  IF blockSize + p > Len(data) THEN Alignments(alignments)
        ELSE IF p + 32 > Len(data) THEN DecodeThrows("RangeError")
        ELSE
        LET blockRefID == GetInt(data, p)
            pos == GetInt(data, p + 4)
            readNameLen == GetByte(data, p + 8)
            mappingQuality == GetByte(data, p + 9)
            numCigarOps == GetUShort(data, p + 12)
            flags == GetUShort(data, p + 14)
            seqLen == GetInt(data, p + 16)
            templateLen == GetInt(data, p + 28)
            readName == GetString(data, p + 32, readNameLen, <<>>)
            cigarAt == readName.position
            seqAt == cigarAt + 4 * numCigarOps
            qualAt == seqAt + SeqBytesRead(seqLen)
            lastRead == qualAt + (IF seqLen < 0 THEN 0 ELSE seqLen)
            cigar == CigarFrom(data, cigarAt, 0, numCigarOps,
                               [cigarOps |-> <<>>, seqOffset |-> 0, lengthOnRef |-> 0])
        IN  IF ~readName.ok THEN DecodeThrows("RangeError")
            ELSE IF OutsideQuery(blockRefID, pos, seqLen, refId, bpStart, bpEnd)
            THEN FeaturesFrom(data, blockEnd, refId, chr, bpStart, bpEnd, alignments)
            ELSE IF lastRead > Len(data) THEN DecodeThrows("RangeError")
            ELSE FeaturesFrom(data, blockEnd, refId, chr, bpStart, bpEnd,
                     Append(alignments,
                            [chr |-> chr, start |-> pos, flags |-> flags,
                             strand |-> ~IsReadStrand(flags),
                             readName |-> readName.s,
                             cigarOps |-> cigar.cigarOps,
                             templateLength |-> templateLen,
                             mappingQuality |-> mappingQuality,
                             seq |-> SliceTo(SeqChars(data, seqAt, SeqBytesRead(seqLen)),
                                             seqLen),
                             phredQualities |-> [i \in 1..seqLen |->
                                                    GetByte(data, qualAt + i - 1)],
                             lengthOnRef |-> cigar.lengthOnRef,
                             blockRefID |-> blockRefID]))

readBamFeatures(blocksData, refId, chr, bpStart, bpEnd) ==
    FeaturesFrom(blocksData, 0, refId, chr, bpStart, bpEnd, <<>>)

(***************************************************************************)
(* BGZF.  A member that holds n bytes is written as GzipId, n and the n    *)
(* bytes; pako's Inflate, pushed the remaining input, inflates the member  *)
(* at its head and leaves the rest unread.                                 *)
(***************************************************************************)
GzipId == 31

Member(payload) == <<GzipId, Len(payload)>> \o payload

RECURSIVE Concat(_)
Concat(seqs) == IF seqs = <<>> THEN <<>> ELSE Head(seqs) \o Concat(Tail(seqs))

\* ArrayBuffer.slice(from) and TypedArray.slice(0, to)
SliceFrom(s, from) == SubSeq(s, Min(from, Len(s)) + 1, Len(s))

\* new Inflate() and inflator.push(remainingInput, 2): the result, how much
\* of the input was read (strm.next_in) and was not (strm.avail_in).  A
\* member cut short by the end of the input gives what it holds so far.
NextInAll(input, size) == Len(input)

NextIn(input, size) == Min(2 + size, Len(input))

InflatorPush(input) ==
    IF input = <<>> \/ input[1] # GzipId \/ Len(input) < 2
    THEN [err |-> TRUE, result |-> <<>>, next_in |-> 0, avail_in |-> Len(input)]
    ELSE LET read == NextIn(input, input[2])
         IN  [err |-> FALSE, result |-> SubSeq(input, 3, read),
              next_in |-> read, avail_in |-> Len(input) - read]

NoChunk ==
    [defined |-> FALSE, start |-> [blockPosition |-> 0, dataPosition |-> 0],
     end |-> [blockPosition |-> 0, dataPosition |-> 0]]

Unzipped(data) == [status |-> "ok", data |-> data]

UnzipThrows == [status |-> "Error", data |-> <<>>]

\* the do-while loop of bgzfUnzip with pos bytes of the input read
RECURSIVE UnzipLoop(_, _, _, _)
UnzipLoop(inputData, chunk, pos, decompressedBlocks) ==
    LET inflator == InflatorPush(SliceFrom(inputData, pos))
        pushed == Append(decompressedBlocks, inflator.result)
        trimmed == IF chunk.defined /\ Len(pushed) = 1 /\ chunk.start.dataPosition # 0
                   THEN <<SliceFrom(pushed[1], chunk.start.dataPosition)>>
                   ELSE pushed
        newEnd == IF chunk.end.blockPosition = chunk.start.blockPosition
                  THEN chunk.end.dataPosition - chunk.start.dataPosition + 1
                  ELSE chunk.end.dataPosition + 1
        lastIndex == Len(trimmed)
    IN  IF inflator.err THEN UnzipThrows
        ELSE IF chunk.defined /\ chunk.start.blockPosition + pos >= chunk.end.blockPosition
        THEN Unzipped(Concat([trimmed EXCEPT
                                ![lastIndex] = SubSeq(@, 1, Min(Len(@), Max(newEnd, 0)))]))
        ELSE IF inflator.avail_in # 0
        THEN UnzipLoop(inputData, chunk, pos + inflator.next_in, trimmed)
        ELSE Unzipped(Concat(trimmed))

bgzfUnzip(inputData, chunk) == UnzipLoop(inputData, chunk, 0, <<>>)

(***************************************************************************)
(* BAM files: the bytes of the alignment records, the BGZF members that    *)
(* hold them and the index of each reference.                              *)
(***************************************************************************)
Int32Bytes(n) ==
    <<n % 256, (n \div 256) % 256, (n \div 65536) % 256, (n \div 16777216) % 256>>

UShortBytes(n) == <<n % 256, (n \div 256) % 256>>

\* the sequence bytes of a record: two 4-bit codes in a byte, high code first
PackedSeq(codes) ==
    [k \in 1..((Len(codes) + 1) \div 2) |->
        16 * codes[2 * k - 1] + (IF 2 * k <= Len(codes) THEN codes[2 * k] ELSE 0)]

\* an alignment block as the BAM format lays it out: block_size, then refID,
\* pos, l_read_name, mapq, bin, n_cigar_op, flag, l_seq, next_refID, next_pos,
\* tlen, read_name, cigar, seq, qual and the tags
AlignmentBlock(r) ==
    LET body == Int32Bytes(r.refID) \o Int32Bytes(r.pos)
                \o <<Len(r.name) + 1, r.mapq>> \o UShortBytes(4681)
                \o UShortBytes(Len(r.cigar)) \o UShortBytes(r.flags)
                \o Int32Bytes(Len(r.seq)) \o Int32Bytes(-1) \o Int32Bytes(-1)
                \o Int32Bytes(0) \o r.name \o <<0>>
                \o Concat([i \in DOMAIN r.cigar |-> Int32Bytes(r.cigar[i])])
                \o PackedSeq(r.seq) \o r.qual \o r.tags
    IN  Int32Bytes(Len(body)) \o body

\* a mapped read: cigar of one M operation over the whole sequence
Read(refID, pos, name, flags, seq, qual, tags) ==
    [refID |-> refID, pos |-> pos, name |-> <<name>>, mapq |-> 37, flags |-> flags,
     cigar |-> <<16 * Len(seq)>>, seq |-> seq, qual |-> qual, tags |-> tags]

\* what stands for the BAM header at the head of the first member
HeaderFiller == <<66, 65, 77>>

FirstMember ==
    Member(HeaderFiller
           \o AlignmentBlock(Read(0, 5, 97, 16, <<1, 2, 4>>, <<30, 31, 32>>, <<>>))
           \o AlignmentBlock(Read(0, 20, 98, 0, <<8, 1>>, <<40, 41>>, <<88, 89>>)))

\* the last record of the file: with an odd, or an even, number of bases and
\* no tags behind the qualities
SecondMember(lastSeq, lastQual) ==
    Member(AlignmentBlock(Read(-1, 0, 99, 4, <<1>>, <<20>>, <<>>))
           \o AlignmentBlock(Read(1, 5, 100, 0, lastSeq, lastQual, <<>>)))

\* the index: for each reference one chunk in bin 4681 and one linear window
BamRefData(second) ==
    <<[binIndex |-> (4681 :> <<[start |-> RawVO(0, Len(HeaderFiller)),
                                 end |-> RawVO(second, 0)]>>),
       linearIndex |-> <<RawVO(0, Len(HeaderFiller))>>],
      [binIndex |-> (4681 :> <<[start |-> RawVO(second, 0), end |-> RawVO(second, 1)]>>),
       linearIndex |-> <<RawVO(second, 0)>>]>>

BamFile(second) ==
    [idToChrom |-> <<"chr1", "chr2">>,
     refData |-> BamRefData(Len(FirstMember)),
     bytes |-> FirstMember \o second]

BamFiles ==
    {BamFile(SecondMember(<<2>>, <<50>>)),
     BamFile(SecondMember(<<2, 4>>, <<50, 51>>)),
     BamFile(<<0, 0>>)}

(***************************************************************************)
(* BamReader.read: the index and the header are read, the chunks of the    *)
(* region are looked up and readBam fetches and decodes them one by one.   *)
(***************************************************************************)
\* headerData.chromToId[chr]: chromToId is an object literal filled with
\* the reference names of the header
BamChromToId(refNames, chr) ==
    IF \E id \in DOMAIN refNames : refNames[id] = chr
    THEN [is |-> "number", n |-> (CHOOSE id \in DOMAIN refNames : refNames[id] = chr) - 1]
    ELSE IF chr \in ObjectPrototypeKeys THEN [is |-> "function", n |-> 0]
    ELSE [is |-> "undefined", n |-> 0]

\* blocksForRange(indexData.refData[refId], refId, start, end): the callee
\* has the parameters (indexData, start, end), so refId arrives as its start
\* and the start of the query as its end.  refData[refId] is undefined
\* unless refId is an index of the array, and the callee then fails on
\* indexData.binIndex.
ChunksOfRead(refData, refId, start, end) ==
    IF refId.is = "number" /\ (refId.n + 1) \in DOMAIN refData
    THEN blocksForRange(refData[refId.n + 1], refId.n, start)
    ELSE Thrown("TypeError")

\* dataLoader.load(start, size) on the BAM file once the transport answers
BamLoad(bytes, start, size) == SubSeq(bytes, start + 1, Min(start + size, Len(bytes)))

BgzfBlockSize == 65536

\* the second argument of the bgzfUnzip call of readBam: there is none
UnzipChunkGiven(chunk) == [defined |-> TRUE, start |-> chunk.start, end |-> chunk.end]

UnzipChunk(chunk) == NoChunk

\* the buffer readBam hands to readBamFeatures for one chunk: the bytes
\* loaded, unzipped, and sliced from chunk.start.dataPosition on
ChunkBuffer(bytes, chunk) ==
    LET bufSize == chunk.end.blockPosition + BgzfBlockSize - chunk.start.blockPosition
        chunkBytes == BamLoad(bytes, chunk.start.blockPosition, bufSize)
        unzippedChunk == bgzfUnzip(chunkBytes, UnzipChunk(chunk))
    IN  IF unzippedChunk.status # "ok" THEN unzippedChunk
        ELSE Unzipped(SliceFrom(unzippedChunk.data, chunk.start.dataPosition))

\* the body of the for loop of readBam for one chunk
ChunkAlignments(bytes, chunk, refId, chr, start, end) ==
    LET handed == ChunkBuffer(bytes, chunk)
    IN  IF handed.status # "ok" THEN DecodeThrows(handed.status)
        ELSE readBamFeatures(handed.data, refId, chr, start, end)

\* handed: the buffers handed to readBamFeatures so far, one for a chunk
NewBamCall ==
    [pc |-> "ready", refId |-> [is |-> "undefined", n |-> 0], chunks |-> <<>>,
     next |-> 1, alignments |-> <<>>, status |-> "none", fetched |-> 0,
     handed |-> <<>>]

\* what the caller's await yields: the array read returned, nothing when the
\* promise was rejected
Awaited(c) == IF c.status = "ok" THEN c.alignments ELSE <<>>

\* getIndexData and getHeaderData answer, the chunks are looked up
BamRead ==
    /\ bamCall.pc = "ready"
    /\ LET refId == BamChromToId(bam.idToChrom, bamQuery.chr)
           chunks == ChunksOfRead(bam.refData, refId, bamQuery.start, bamQuery.end)
       IN  bamCall' = IF chunks.status = "ok"
                      THEN [bamCall EXCEPT !.pc = "chunks", !.refId = refId,
                                           !.chunks = chunks.chunks]
                      ELSE [bamCall EXCEPT !.pc = "done", !.refId = refId,
                                           !.status = chunks.status]
    /\ UNCHANGED <<bam, bamQuery>>
    /\ UNCHANGED <<coreVars, notBam>>

\* the load behind getIndexData or getHeaderData is rejected
BamReadFails ==
    /\ bamCall.pc = "ready"
    /\ bamCall' = [bamCall EXCEPT !.pc = "done", !.status = "Error"]
    /\ UNCHANGED <<bam, bamQuery>>
    /\ UNCHANGED <<coreVars, notBam>>

\* the next chunk is loaded, unzipped and decoded
BamChunkLoaded ==
    /\ bamCall.pc = "chunks" /\ bamCall.next <= Len(bamCall.chunks)
    /\ LET chunkAlignments == ChunkAlignments(bam.bytes, bamCall.chunks[bamCall.next],
                                              bamCall.refId.n, bamQuery.chr,
                                              bamQuery.start, bamQuery.end)
           handed == ChunkBuffer(bam.bytes, bamCall.chunks[bamCall.next])
       IN  bamCall' = IF chunkAlignments.status = "ok"
                      THEN [bamCall EXCEPT !.next = @ + 1, !.fetched = @ + 1,
                               !.alignments = @ \o chunkAlignments.alignments,
                               !.handed = Append(@, handed.data)]
                      ELSE [bamCall EXCEPT !.pc = "done", !.fetched = @ + 1,
                               !.status = chunkAlignments.status,
                               !.handed = IF handed.status = "ok"
                                          THEN Append(@, handed.data) ELSE @]
    /\ UNCHANGED <<bam, bamQuery>>
    /\ UNCHANGED <<coreVars, notBam>>

\* the load of the next chunk is rejected
BamChunkFails ==
    /\ bamCall.pc = "chunks" /\ bamCall.next <= Len(bamCall.chunks)
    /\ bamCall' = [bamCall EXCEPT !.pc = "done", !.fetched = @ + 1, !.status = "Error"]
    /\ UNCHANGED <<bam, bamQuery>>
    /\ UNCHANGED <<coreVars, notBam>>

\* every chunk was read: readBam returns its array
BamReturns ==
    /\ bamCall.pc = "chunks" /\ bamCall.next > Len(bamCall.chunks)
    /\ bamCall' = [bamCall EXCEPT !.pc = "done", !.status = "ok"]
    /\ UNCHANGED <<bam, bamQuery>>
    /\ UNCHANGED <<coreVars, notBam>>

BamNames == {"chr1", "chr2", "chrX", "constructor"}

BamQueries == [chr : BamNames, start : {0, 5, 25}, end : {4, 10, 30}]

BamInit ==
    /\ bam \in BamFiles
    /\ bamQuery \in BamQueries
    /\ bamCall = NewBamCall

(***************************************************************************)
(* The buffers and queries readBamFeatures is called on.                   *)
(***************************************************************************)
MaxRecords == 2

\* reads on no reference, on reference 0 and on reference 1, of one and of
\* two bases, with and without tags behind the qualities
FeatureReads(name) ==
    {Read(refID, pos, name, 0, seq, [i \in DOMAIN seq |-> 30 + i], tags) :
        refID \in {-1, 0, 1}, pos \in {3, 8}, seq \in {<<1>>, <<1, 2>>},
        tags \in {<<>>, <<88>>}}

\* the lists of up to n reads; the read at place k is named 96 + k
RECURSIVE ReadLists(_)
ReadLists(n) ==
    IF n = 0 THEN {<<>>}
    ELSE LET shorter == ReadLists(n - 1)
         IN  shorter \cup {Append(l, r) : l \in {s \in shorter : Len(s) = n - 1},
                                            r \in FeatureReads(96 + n)}

\* a buffer of whole records, or one that ends a byte short of its last
\* record
FeatureBuffers ==
    {[records |-> l, cut |-> cut,
      bytes |-> LET whole == Concat([k \in DOMAIN l |-> AlignmentBlock(l[k])])
                IN  SubSeq(whole, 1, Len(whole) - cut)] :
        l \in ReadLists(MaxRecords) \ {<<>>}, cut \in {0, 1}}

FeatureQueries == [refId : {0, 1}, chr : {"chr1"}, bpStart : {0, 5, 9}, bpEnd : {2, 7, 12}]

NoAlignments == [status |-> "none", alignments |-> <<>>]

FeatInit ==
    /\ featBuffer \in FeatureBuffers
    /\ featQuery \in {q \in FeatureQueries : q.bpStart <= q.bpEnd}
    /\ featOut = NoAlignments

FeatIdle == featBuffer = <<>> /\ featQuery = <<>> /\ featOut = <<>>

\* one call of readBamFeatures
CallReadBamFeatures ==
    /\ featOut = NoAlignments
    /\ featOut' = readBamFeatures(featBuffer.bytes, featQuery.refId, featQuery.chr,
                                  featQuery.bpStart, featQuery.bpEnd)
    /\ UNCHANGED <<featBuffer, featQuery>>
    /\ UNCHANGED <<coreVars, notFeat>>

(***************************************************************************)
(* 2bit: loadSequence on a sequence record and the packed bases behind it. *)
(* A string is a sequence of one-character strings.                        *)
(***************************************************************************)
CHARMAPPING == <<"T", "C", "A", "G">>

\* getBases(twoBit): the four bases of a byte, high bits first
getBases(byte) ==
    <<CHARMAPPING[(byte \div 64) + 1], CHARMAPPING[((byte \div 16) % 4) + 1],
      CHARMAPPING[((byte \div 4) % 4) + 1], CHARMAPPING[(byte % 4) + 1]>>

\* rn(i): i times N
rn(i) == [k \in 1..i |-> "N"]

\* String.substring(from, to): both ends clamped to the string, swapped when
\* from > to
Clamp(i, len) == IF i < 0 THEN 0 ELSE IF i > len THEN len ELSE i

Substring(s, from, to) ==
    LET a == Clamp(from, Len(s))
        b == Clamp(to, Len(s))
    IN  IF a <= b THEN SubSeq(s, a + 1, b) ELSE SubSeq(s, b + 1, a)

\* String.substring(from)
SubstringFrom(s, from) == Substring(s, from, Len(s))

LowerCase(c) ==
    CASE c = "T" -> "t" [] c = "C" -> "c" [] c = "A" -> "a" [] c = "G" -> "g"
      [] c = "N" -> "n" [] OTHER -> c

toLowerCase(s) == [k \in DOMAIN s |-> LowerCase(s[k])]

\* array[i] of a JavaScript array, for the comparisons below: a comparison
\* with undefined, or with undefined + undefined, is false
Defined(array, i) == (i + 1) \in DOMAIN array

\* start = start - 1 < 0 ? 0 : start - 1
FirstBase(start) == IF start - 1 < 0 THEN 0 ELSE start - 1

\* the loop that finds the interrupting blocks of N's, from block i on
RECURSIVE InterruptingNBlocks(_, _, _, _)
InterruptingNBlocks(sequence, i, start, end) ==
    IF i >= Len(sequence.nBlockStarts) THEN <<>>
    ELSE IF sequence.nBlockStarts[i + 1] > end THEN <<>>
    ELSE IF sequence.nBlockStarts[i + 1] + sequence.nBlockSizes[i + 1] < start
    THEN InterruptingNBlocks(sequence, i + 1, start, end)
    ELSE <<[start |-> sequence.nBlockStarts[i + 1], size |-> sequence.nBlockSizes[i + 1]]>>
         \o InterruptingNBlocks(sequence, i + 1, start, end)

\* the loop that finds the interrupting mask blocks: it runs over the mask
\* blocks and tests the N block of the same index
RECURSIVE InterruptingMaskBlocks(_, _, _, _)
InterruptingMaskBlocks(sequence, i, start, end) ==
    IF i >= Len(sequence.maskBlockStarts) THEN <<>>
    ELSE IF Defined(sequence.nBlockStarts, i) /\ sequence.nBlockStarts[i + 1] > end THEN <<>>
    ELSE IF Defined(sequence.nBlockStarts, i)
            /\ sequence.nBlockStarts[i + 1] + sequence.nBlockSizes[i + 1] < start
    THEN InterruptingMaskBlocks(sequence, i + 1, start, end)
    ELSE <<[start |-> sequence.maskBlockStarts[i + 1],
            size |-> sequence.maskBlockSizes[i + 1]]>>
         \o InterruptingMaskBlocks(sequence, i + 1, start, end)

\* the bytes to fetch: Math.ceil((end - start) / 4 + Math.ceil((start % 4) / 4))
BytesToFetch(start, end) ==
    LET whole == (end - start) \div 4
        rest == (end - start) % 4
    IN  whole + (IF start % 4 # 0 THEN 1 ELSE 0) + (IF rest # 0 THEN 1 ELSE 0)

\* the bases of the first n bytes of data
RECURSIVE BasesOf(_, _)
BasesOf(data, n) ==
    IF n = 0 THEN <<>> ELSE BasesOf(data, n - 1) \o getBases(data[n])

\* interruptingNBlocks.forEach from block i on
RECURSIVE FillN(_, _, _, _, _)
FillN(blocks, i, csequence, start, end) ==
    IF i >= Len(blocks) THEN csequence
    ELSE LET block == blocks[i + 1]
             blockEnd == block.start + block.size
             upTo == IF blockEnd <= end THEN blockEnd ELSE end
             rest == SubstringFrom(csequence, (IF blockEnd < end THEN blockEnd ELSE end) - start)
         IN  FillN(blocks, i + 1,
                   IF i = 0 /\ block.start <= start
                   THEN rn(upTo - start) \o rest
                   ELSE Substring(csequence, 0, block.start - start)
                        \o rn(upTo - block.start) \o rest,
                   start, end)

\* interruptingMaskBlocks.forEach from block i on
RECURSIVE SetLowerCase(_, _, _, _, _)
SetLowerCase(blocks, i, csequence, start, end) ==
    IF i >= Len(blocks) THEN csequence
    ELSE LET block == blocks[i + 1]
             blockEnd == block.start + block.size
             upTo == IF blockEnd <= end THEN blockEnd ELSE end
             rest == SubstringFrom(csequence, (IF blockEnd < end THEN blockEnd ELSE end) - start)
         IN  SetLowerCase(blocks, i + 1,
                   IF i = 0 /\ block.start <= start
                   THEN toLowerCase(Substring(csequence, 0, upTo - start)) \o rest
                   ELSE Substring(csequence, 0, block.start - start)
                        \o toLowerCase(Substring(csequence, block.start - start, upTo - start))
                        \o rest,
                   start, end)

Sequence(s) == [status |-> "ok", s |-> s]

\* loadSequence(dataLoader, header, sequence, start, end) on a file whose
\* bytes from sequence.offset on are packed; a getByte past the bytes the
\* load returned is a RangeError
loadSequence(packed, sequence, startBase, end) ==
    LET start == FirstBase(startBase)
        n == BytesToFetch(start, end)
        data == SubSeq(packed, (start \div 4) + 1, Min((start \div 4) + n, Len(packed)))
        csequence == Substring(BasesOf(data, n), start % 4, (start % 4) + end - start)
        withN == FillN(InterruptingNBlocks(sequence, 0, start, end), 0, csequence, start, end)
    IN  IF Len(data) < n THEN [status |-> "RangeError", s |-> <<>>]
        ELSE Sequence(SetLowerCase(InterruptingMaskBlocks(sequence, 0, start, end), 0,
                                   withN, start, end))

(***************************************************************************)
(* The 2bit sequences and intervals loadSequence is called on.             *)
(***************************************************************************)
\* the bases of the sequence as codes of CHARMAPPING, and their bytes
DnaBases == <<2, 1, 3, 0, 1, 2, 0, 3>>

DnaSize == Len(DnaBases)

PackedBases(bases, trailing) ==
    [k \in 1..(((Len(bases) + 3) \div 4) + trailing) |->
        IF k <= (Len(bases) + 3) \div 4
        THEN 64 * bases[4 * k - 3]
             + 16 * (IF 4 * k - 2 <= Len(bases) THEN bases[4 * k - 2] ELSE 0)
             + 4 * (IF 4 * k - 1 <= Len(bases) THEN bases[4 * k - 1] ELSE 0)
             + (IF 4 * k <= Len(bases) THEN bases[4 * k] ELSE 0)
        ELSE 0]

\* sorted blocks that do not overlap: none, one or two
BlockLists ==
    {<<>>, <<[start |-> 0, size |-> 2]>>, <<[start |-> 3, size |-> 2]>>,
     <<[start |-> 6, size |-> 2]>>, <<[start |-> 0, size |-> 1], [start |-> 5, size |-> 2]>>}

SequenceRecords ==
    {[dnaSize |-> DnaSize,
      nBlockStarts |-> [k \in DOMAIN ns |-> ns[k].start],
      nBlockSizes |-> [k \in DOMAIN ns |-> ns[k].size],
      maskBlockStarts |-> [k \in DOMAIN ms |-> ms[k].start],
      maskBlockSizes |-> [k \in DOMAIN ms |-> ms[k].size],
      packed |-> PackedBases(DnaBases, trailing)] :
        ns \in BlockLists, ms \in BlockLists, trailing \in {0, 1}}

TwoBitQueries == {q \in [start : 0..DnaSize, end : 0..DnaSize] : q.start < q.end}

NoSequence == [status |-> "none", s |-> <<>>]

TwoBitInit ==
    /\ twoBit \in SequenceRecords
    /\ tbQuery \in TwoBitQueries
    /\ tbOut = NoSequence

\* readTwoBitData(chrom, startBase, endBase) once the sequence record is there
ReadTwoBitData ==
    /\ tbOut = NoSequence
    /\ tbOut' = loadSequence(twoBit.packed, twoBit, tbQuery.start, tbQuery.end)
    /\ UNCHANGED <<twoBit, tbQuery>>
    /\ UNCHANGED <<coreVars, notTwoBit>>

(***************************************************************************)
(* The regions reg2bins is called on.                                      *)
(***************************************************************************)
RegionStarts == {0, 1, 16383, 16384, 32768, 131072, 67108864, 536870911, 536870912}

RegionEnds ==
    {1, 2, 16384, 16385, 131073, 1048577, 67108865, 134217728, 536870912, 536870913,
     1073741824}

NoRegion == [start |-> 0, end |-> 0]

BinsInit ==
    /\ binsRegion \in {r \in [start : RegionStarts, end : RegionEnds] : r.start < r.end}
    /\ binsOut = <<>>

\* one call of reg2bins
CallReg2Bins ==
    /\ binsOut = <<>>
    /\ binsOut' = reg2bins(binsRegion.start, binsRegion.end)
    /\ UNCHANGED binsRegion
    /\ UNCHANGED <<coreVars, notBins>>

(***************************************************************************)
(* The BGZF inputs bgzfUnzip is called on.                                 *)
(***************************************************************************)
MaxMembers == 3

MaxPayload == 2

\* what a member holds: up to MaxPayload bytes, the byte GzipId among them
Payloads == UNION {[1..n -> {0, GzipId}] : n \in 0..MaxPayload}

RECURSIVE PayloadLists(_)
PayloadLists(n) ==
    IF n = 0 THEN {<<>>}
    ELSE LET shorter == PayloadLists(n - 1)
         IN  shorter \cup {Append(l, p) : l \in {s \in shorter : Len(s) = n - 1},
                                            p \in Payloads}

NotUnzipped == [whole |-> [status |-> "none", data |-> <<>>], members |-> <<>>]

BgzfInit ==
    /\ bgzfInput \in PayloadLists(MaxMembers) \ {<<>>}
    /\ bgzfOut = NotUnzipped

\* bgzfUnzip without a chunk, on the whole input and on the span of each
\* member
CallBgzfUnzip ==
    /\ bgzfOut = NotUnzipped
    /\ bgzfOut' = [whole |-> bgzfUnzip(Concat([i \in DOMAIN bgzfInput |->
                                                  Member(bgzfInput[i])]), NoChunk),
                   members |-> [i \in DOMAIN bgzfInput |->
                                  bgzfUnzip(Member(bgzfInput[i]), NoChunk)]]
    /\ UNCHANGED bgzfInput
    /\ UNCHANGED <<coreVars, notBgzf>>

(***************************************************************************)
(* BinaryParser with a byte order, and the bytes of a BigWig / BigBed file *)
(* as loadHeaderData, loadData, loadLeafNodesForRPNode and decodeWigData   *)
(* parse them.  A 32-bit unsigned value is the tuple of its four bytes,    *)
(* most significant first (0x888FFC26 is <<136, 143, 252, 38>>).           *)
(***************************************************************************)
RECURSIVE Reverse(_)
Reverse(s) == IF s = <<>> THEN <<>> ELSE Append(Reverse(Tail(s)), Head(s))

\* the width bytes at position p, least significant first, as a DataView
\* getter called with littleEndian reads them
Ordered(data, p, width, littleEndian) ==
    IF littleEndian THEN SubSeq(data, p + 1, p + width)
    ELSE Reverse(SubSeq(data, p + 1, p + width))

getUShort(data, p, littleEndian) == GetUShort(Ordered(data, p, 2, littleEndian), 0)

getInt(data, p, littleEndian) == GetInt(Ordered(data, p, 4, littleEndian), 0)

getUInt(data, p, littleEndian) == Reverse(Ordered(data, p, 4, littleEndian))

\* getLong: value = value * 256 + b[i] over the eight bytes; a value of 2^31
\* or more is kept as LongOverflow
LongOverflow == 2147483647

getLong(data, p, littleEndian) ==
    LET b == Ordered(data, p, 8, littleEndian)
    IN  IF b[4] >= 128 \/ \E i \in 5..8 : b[i] # 0 THEN LongOverflow
        ELSE GetUInt(b, 0)

\* the constructor's default: littleEndian = true
DefaultLittleEndian == TRUE

TWOBIT_MAGIC_LTH == <<26, 65, 39, 67>>

TWOBIT_MAGIC_HTL == <<67, 39, 65, 26>>

BIGWIG_MAGIC_LTH == <<136, 143, 252, 38>>

BIGWIG_MAGIC_HTL == <<38, 252, 143, 136>>

BIGBED_MAGIC_LTH == <<135, 137, 242, 235>>

BIGBED_MAGIC_HTL == <<235, 242, 137, 135>>

CHROM_TREE_MAGIC == <<120, 202, 140, 145>>

BBFILE_HEADER_SIZE == 64

\* IDX_MAGIC as a 32-bit unsigned value
IdxMagic == <<36, 104, 172, 224>>

(***************************************************************************)
(* Writing a file: every multi-byte integer in the byte order of the file. *)
(***************************************************************************)
RECURSIVE LowBytes(_, _)
LowBytes(n, width) ==
    IF width = 0 THEN <<>> ELSE <<n % 256>> \o LowBytes(n \div 256, width - 1)

Written(n, width, littleEndian) ==
    IF littleEndian THEN LowBytes(n, width) ELSE Reverse(LowBytes(n, width))

WrittenMagic(magic, littleEndian) ==
    IF littleEndian THEN Reverse(magic) ELSE magic

Zeros(n) == [i \in 1..n |-> 0]

ZOOM_HEADER_SIZE == 24

TOTAL_SUMMARY_SIZE == 40

CHROM_TREE_HEADER_SIZE == 32

\* "chr1", the one chromosome of the file, with id 0
ChromKey == <<99, 104, 114, 49>>

\* the length of the chromosome, the bases the total summary says are
\* covered, and the one section of the file: bases 10 to 20 of chromosome 0
FileValues ==
    [chromSize |-> 1000, basesCovered |-> 500, sectionStart |-> 10, sectionEnd |-> 20]

WIG_HEADER_SIZE == 24

\* where the parts of the file lie, for a file of n zoom levels
TotalSummaryAt(n) == BBFILE_HEADER_SIZE + n * ZOOM_HEADER_SIZE

ChromTreeAt(n) == TotalSummaryAt(n) + TOTAL_SUMMARY_SIZE

FullDataAt(n) == ChromTreeAt(n) + CHROM_TREE_HEADER_SIZE + 4 + Len(ChromKey) + 8

WigBlockAt(n) == FullDataAt(n) + 8

FullIndexAt(n) == WigBlockAt(n) + WIG_HEADER_SIZE

\* the file of a type whose magic is given, written in one byte order, with
\* the reduction levels of its zoom levels, with or without a total summary
\* and a chromosome tree
WrittenFile(magic, le, levels, hasSummary, hasTree) ==
    LET n == Len(levels)
    IN  \* the common header
        WrittenMagic(magic, le)
        \o Written(4, 2, le) \o Written(n, 2, le)
        \o Written(IF hasTree THEN ChromTreeAt(n) ELSE 0, 8, le)
        \o Written(FullDataAt(n), 8, le)
        \o Written(FullIndexAt(n), 8, le)
        \o Written(0, 2, le) \o Written(0, 2, le)
        \o Written(0, 8, le)
        \o Written(IF hasSummary THEN TotalSummaryAt(n) ELSE 0, 8, le)
        \o Written(0, 4, le) \o Written(0, 8, le)
        \* the zoom level table
        \o Concat([i \in 1..n |-> Written(levels[i], 4, le) \o Written(0, 4, le)
                                   \o Written(0, 8, le) \o Written(0, 8, le)])
        \* the total summary: basesCovered and four doubles
        \o Written(FileValues.basesCovered, 8, le) \o Zeros(32)
        \* the chromosome tree: header and one leaf node of one item
        \o WrittenMagic(CHROM_TREE_MAGIC, le)
        \o Written(1, 4, le) \o Written(Len(ChromKey), 4, le) \o Written(8, 4, le)
        \o Written(1, 8, le) \o Written(0, 8, le)
        \o <<1, 0>> \o Written(1, 2, le)
        \o ChromKey \o Written(0, 4, le) \o Written(FileValues.chromSize, 4, le)
        \* the data: the section count and one fixed-step section header
        \o Written(1, 8, le)
        \o Written(0, 4, le) \o Written(FileValues.sectionStart, 4, le) \o Written(FileValues.sectionEnd, 4, le)
        \o Written(1, 4, le) \o Written(1, 4, le) \o <<3, 0>> \o Written(0, 2, le)
        \* the R+ tree: header and a root node that is a leaf of one item
        \o WrittenMagic(IdxMagic, le) \o Zeros(RPTREE_HEADER_SIZE - 4)
        \o <<1, 0>> \o Written(1, 2, le)
        \o Written(0, 4, le) \o Written(FileValues.sectionStart, 4, le)
        \o Written(0, 4, le) \o Written(FileValues.sectionEnd, 4, le)
        \o Written(WigBlockAt(n), 8, le) \o Written(WIG_HEADER_SIZE, 8, le)

MaxZoomLevels == 2

ReductionLevels == {1, 256}

LevelLists == UNION {[1..n -> ReductionLevels] : n \in 0..MaxZoomLevels}

FileMagics == {BIGWIG_MAGIC_LTH, BIGBED_MAGIC_LTH}

\* a file, and what was written into it
HeaderFiles ==
    {[magic |-> magic, littleEndian |-> le, levels |-> levels,
      hasSummary |-> hasSummary, hasTree |-> hasTree,
      bytes |-> WrittenFile(magic, le, levels, hasSummary, hasTree)] :
        magic \in FileMagics, le \in BOOLEAN, levels \in LevelLists,
        hasSummary \in BOOLEAN, hasTree \in BOOLEAN}

\* dataLoader.load(start, size) on the file
LoadBytes(bytes, start, size) == SubSeq(bytes, start + 1, Min(start + size, Len(bytes)))

(***************************************************************************)
(* loadHeaderData                                                          *)
(***************************************************************************)
\* the file type and byte order the first four bytes give: low-to-high
\* first, then high-to-low
DetectFileType(headerBytes) ==
    LET lth == getUInt(headerBytes, 0, TRUE)
        htl == getUInt(headerBytes, 0, FALSE)
    IN  IF lth = BIGWIG_MAGIC_LTH THEN [fileType |-> "BigWig", littleEndian |-> TRUE]
        ELSE IF lth = BIGBED_MAGIC_LTH THEN [fileType |-> "BigBed", littleEndian |-> TRUE]
        ELSE IF lth = TWOBIT_MAGIC_LTH THEN [fileType |-> "TwoBit", littleEndian |-> TRUE]
        ELSE IF htl = BIGWIG_MAGIC_HTL THEN [fileType |-> "BigWig", littleEndian |-> FALSE]
        ELSE IF htl = BIGBED_MAGIC_HTL THEN [fileType |-> "BigBed", littleEndian |-> FALSE]
        ELSE IF htl = TWOBIT_MAGIC_HTL THEN [fileType |-> "TwoBit", littleEndian |-> FALSE]
        ELSE [fileType |-> "undefined", littleEndian |-> FALSE]

CommonHeader(headerBytes, littleEndian) ==
    [bwVersion |-> getUShort(headerBytes, 4, littleEndian),
     nZoomLevels |-> getUShort(headerBytes, 6, littleEndian),
     chromTreeOffset |-> getLong(headerBytes, 8, littleEndian),
     fullDataOffset |-> getLong(headerBytes, 16, littleEndian),
     fullIndexOffset |-> getLong(headerBytes, 24, littleEndian),
     fieldCount |-> getUShort(headerBytes, 32, littleEndian),
     definedFieldCount |-> getUShort(headerBytes, 34, littleEndian),
     autoSqlOffset |-> getLong(headerBytes, 36, littleEndian),
     totalSummaryOffset |-> getLong(headerBytes, 44, littleEndian),
     uncompressBuffSize |-> getInt(headerBytes, 52, littleEndian)]

\* the zoom level headers by index: the i-th record of the table is that of
\* index nZoomLevels - i
ZoomLevelHeaders(xdata, nZoomLevels, littleEndian) ==
    [k \in 1..nZoomLevels |->
        [index |-> k - 1,
         reductionLevel |-> getInt(xdata, (nZoomLevels - k) * ZOOM_HEADER_SIZE, littleEndian)]]

NoTotalSummary == [defined |-> FALSE, basesCovered |-> 0]

TotalSummary(xdata, common, littleEndian) ==
    IF common.totalSummaryOffset > 0
    THEN [defined |-> TRUE,
          basesCovered |-> getLong(xdata, common.totalSummaryOffset - BBFILE_HEADER_SIZE,
                                   littleEndian)]
    ELSE NoTotalSummary

NoChromTree ==
    [defined |-> FALSE, magic |-> <<>>, keySize |-> 0, type |-> 0, count |-> 0,
     items |-> <<>>]

\* the chromosome tree header and, by buildChromTree, the items of its root
\* node, a leaf in every file of the model
ChromTree(xdata, common, littleEndian) ==
    IF common.chromTreeOffset > 0
    THEN LET at == common.chromTreeOffset - BBFILE_HEADER_SIZE
             keySize == getInt(xdata, at + 8, littleEndian)
             node == at + CHROM_TREE_HEADER_SIZE
             count == getUShort(xdata, node + 2, littleEndian)
         IN  [defined |-> TRUE,
              magic |-> getUInt(xdata, at, littleEndian),
              keySize |-> keySize,
              type |-> GetByte(xdata, node),
              count |-> count,
              items |-> [i \in 1..count |->
                  LET item == node + 4 + (i - 1) * (keySize + 8)
                  IN  [key |-> SubSeq(xdata, item + 1, item + keySize),
                       chromId |-> getInt(xdata, item + keySize, littleEndian),
                       chromSize |-> getInt(xdata, item + keySize + 4, littleEndian)]]]
    ELSE NoChromTree

NoHeader ==
    [status |-> "none", fileType |-> "undefined", littleEndian |-> TRUE,
     common |-> CommonHeader(Zeros(BBFILE_HEADER_SIZE), TRUE),
     zoomLevelHeaders |-> <<>>, totalSummary |-> NoTotalSummary, chromTree |-> NoChromTree]

\* the parser of xdata is made by new BinaryParser(xdata), with the default
\* byte order, and stays the parser of the total summary and the chromosome
\* tree
loadHeaderData(bytes) ==
    LET headerBytes == LoadBytes(bytes, 0, BBFILE_HEADER_SIZE)
        detected == DetectFileType(headerBytes)
        common == CommonHeader(headerBytes, detected.littleEndian)
        xdata == LoadBytes(bytes, BBFILE_HEADER_SIZE,
                           common.fullDataOffset - BBFILE_HEADER_SIZE + 5)
        chromTree == ChromTree(xdata, common, DefaultLittleEndian)
    IN  IF detected.fileType = "TwoBit" THEN [NoHeader EXCEPT !.status = "twoBit"]
        ELSE IF detected.fileType = "undefined"
        THEN [NoHeader EXCEPT !.status = "Unable to determine file type."]
        ELSE IF chromTree.defined /\ chromTree.magic # CHROM_TREE_MAGIC
        THEN [NoHeader EXCEPT !.status = "Chomosome ID B+ Tree not found."]
        ELSE [status |-> "ok", fileType |-> detected.fileType,
              littleEndian |-> detected.littleEndian, common |-> common,
              zoomLevelHeaders |-> ZoomLevelHeaders(xdata, common.nZoomLevels,
                                                    DefaultLittleEndian),
              totalSummary |-> TotalSummary(xdata, common, DefaultLittleEndian),
              chromTree |-> chromTree]

(***************************************************************************)
(* loadData on the bytes of the file: the R+ tree magic, the root node and *)
(* the header of the section the leaf item points at.                      *)
(***************************************************************************)
\* the magic of the R+ tree header, parsed by new BinaryParser(...) with the
\* default byte order
RPTreeMagic(bytes, treeOffset) ==
    getUInt(LoadBytes(bytes, treeOffset, RPTREE_HEADER_SIZE), 0, DefaultLittleEndian)

\* the header and the items of the node at rpNodeOffset
RPNode(bytes, littleEndian, rpNodeOffset) ==
    LET nodeHeaderData == LoadBytes(bytes, rpNodeOffset, 4)
        isLeaf == 1 = GetByte(nodeHeaderData, 0)
        count == getUShort(nodeHeaderData, 2, littleEndian)
        itemSize == IF isLeaf THEN RPTREE_NODE_LEAF_ITEM_SIZE
                    ELSE RPTREE_NODE_CHILD_ITEM_SIZE
        nodeData == LoadBytes(bytes, rpNodeOffset + 4, count * itemSize)
    IN  [isLeaf |-> isLeaf, count |-> count,
         items |-> [i \in 1..count |->
             LET at == (i - 1) * itemSize
             IN  [startChrom |-> getInt(nodeData, at, littleEndian),
                  startBase |-> getInt(nodeData, at + 4, littleEndian),
                  endChrom |-> getInt(nodeData, at + 8, littleEndian),
                  endBase |-> getInt(nodeData, at + 12, littleEndian),
                  dataOffset |-> getLong(nodeData, at + 16, littleEndian),
                  dataSize |-> IF isLeaf THEN getLong(nodeData, at + 24, littleEndian)
                               ELSE 0]]]

\* the head of decodeWigData: the parser is new BinaryParser(data)
WigSectionHeader(data) ==
    [chromIndex |-> getInt(data, 0, DefaultLittleEndian),
     startBase |-> getInt(data, 4, DefaultLittleEndian),
     endBase |-> getInt(data, 8, DefaultLittleEndian),
     itemStep |-> getInt(data, 12, DefaultLittleEndian),
     itemSpan |-> getInt(data, 16, DefaultLittleEndian),
     type |-> GetByte(data, 20),
     itemCount |-> getUShort(data, 22, DefaultLittleEndian)]

NoNode == [isLeaf |-> FALSE, count |-> 0, items |-> <<>>]

NoSection == WigSectionHeader(Zeros(WIG_HEADER_SIZE))

NewHdrCall ==
    [pc |-> "new", status |-> "pending", header |-> NoHeader, magic |-> <<>>,
     node |-> NoNode, section |-> NoSection]

HdrInit ==
    /\ hdrFile \in HeaderFiles
    /\ hdrCall = NewHdrCall

\* getHeader: loadHeaderData on the file
HdrGetHeader ==
    /\ hdrCall.pc = "new"
    /\ LET loaded == loadHeaderData(hdrFile.bytes)
       IN  hdrCall' = IF loaded.status = "ok"
                      THEN [hdrCall EXCEPT !.pc = "header", !.header = loaded]
                      ELSE [hdrCall EXCEPT !.pc = "failed", !.status = loaded.status]
    /\ UNCHANGED hdrFile
    /\ UNCHANGED <<coreVars, notHdr>>

\* loadData up to the check of the R+ tree magic at fullIndexOffset
HdrLoadData ==
    /\ hdrCall.pc = "header"
    /\ LET magic == RPTreeMagic(hdrFile.bytes, hdrCall.header.common.fullIndexOffset)
       IN  hdrCall' =
             IF ~hdrCall.header.chromTree.defined
             THEN [hdrCall EXCEPT !.pc = "failed", !.status = "FileFormatError"]
             ELSE IF IdxMagic # magic
             THEN [hdrCall EXCEPT !.pc = "failed", !.status = "FileFormatError",
                                  !.magic = magic]
             ELSE [hdrCall EXCEPT !.pc = "tree", !.magic = magic]
    /\ UNCHANGED hdrFile
    /\ UNCHANGED <<coreVars, notHdr>>

\* loadLeafNodesForRPNode on the root node, with header.littleEndian
HdrLoadNode ==
    /\ hdrCall.pc = "tree"
    /\ hdrCall' = [hdrCall EXCEPT
                     !.pc = "leaf",
                     !.node = RPNode(hdrFile.bytes, hdrCall.header.littleEndian,
                                     hdrCall.header.common.fullIndexOffset
                                       + RPTREE_HEADER_SIZE)]
    /\ UNCHANGED hdrFile
    /\ UNCHANGED <<coreVars, notHdr>>

\* the leaf block is loaded and handed to decodeWigData
HdrDecode ==
    /\ hdrCall.pc = "leaf"
    /\ hdrCall.header.fileType = "BigWig"
    /\ hdrCall.node.isLeaf /\ hdrCall.node.count > 0
    /\ LET leafNode == hdrCall.node.items[1]
       IN  hdrCall' = [hdrCall EXCEPT
                         !.pc = "done", !.status = "ok",
                         !.section = WigSectionHeader(
                             LoadBytes(hdrFile.bytes, leafNode.dataOffset,
                                       leafNode.dataSize))]
    /\ UNCHANGED hdrFile
    /\ UNCHANGED <<coreVars, notHdr>>

HdrIdle == hdrFile = <<>> /\ hdrCall = NewHdrCall

(***************************************************************************)
(* The bytes of a BAI file and the two ways of reading it: readBamIndex    *)
(* parses every reference, readBamIndexRef parses one and skips the rest.  *)
(***************************************************************************)
BAI_MAGIC == 21578050

PSEUDO_BIN_MAGIC == 37450

\* a bin as written: its number and its chunks (the pseudo-bin holds two)
WrittenBin(b) ==
    Int32Bytes(b.bin) \o Int32Bytes(Len(b.chunks))
    \o Concat([c \in DOMAIN b.chunks |-> b.chunks[c].start \o b.chunks[c].end])

WrittenRef(r) ==
    Int32Bytes(Len(r.bins)) \o Concat([b \in DOMAIN r.bins |-> WrittenBin(r.bins[b])])
    \o Int32Bytes(Len(r.intervals)) \o Concat(r.intervals)

WrittenBai(magic, refs) ==
    Int32Bytes(magic) \o Int32Bytes(Len(refs))
    \o Concat([r \in DOMAIN refs |-> WrittenRef(refs[r])])

\* the chunks of bin number binNumber read at position p
ReadChunks(data, p, numChunks) ==
    [c \in 1..numChunks |->
        [start |-> SubSeq(data, p + 16 * (c - 1) + 1, p + 16 * (c - 1) + 8),
         end |-> SubSeq(data, p + 16 * (c - 1) + 9, p + 16 * (c - 1) + 16)]]

\* the bin loop of parseRefIdData: bins left to read, position, binIndex so far
RECURSIVE ParseBins(_, _, _, _)
ParseBins(data, p, bins, binIndex) ==
    IF bins = 0 THEN [position |-> p, binIndex |-> binIndex]
    ELSE LET binNumber == GetUInt(data, p)
             numChunks == GetInt(data, p + 4)
         IN  IF binNumber = PSEUDO_BIN_MAGIC
             THEN ParseBins(data, p + 4 + 36, bins - 1, binIndex)
             ELSE ParseBins(data, p + 8 + 16 * numChunks, bins - 1,
                            (binNumber :> ReadChunks(data, p + 8, numChunks)) @@ binIndex)

\* parseRefIdData at position p: the reference's index and the position after it
parseRefIdData(data, p) ==
    LET binsRead == ParseBins(data, p + 4, GetInt(data, p), <<>>)
        q == binsRead.position
        numIntervals == GetInt(data, q)
    IN  [position |-> q + 4 + 8 * numIntervals,
         ref |-> [binIndex |-> binsRead.binIndex,
                  linearIndex |-> [i \in 1..numIntervals |->
                                      SubSeq(data, q + 4 + 8 * (i - 1) + 1,
                                             q + 4 + 8 * i)]]]

\* the bin loop of skipRefIdData
RECURSIVE SkipBins(_, _, _)
SkipBins(data, p, bins) ==
    IF bins = 0 THEN p
    ELSE IF GetUInt(data, p) = PSEUDO_BIN_MAGIC THEN SkipBins(data, p + 4 + 36, bins - 1)
    ELSE SkipBins(data, p + 8 + 16 * GetInt(data, p + 4), bins - 1)

\* skipRefIdData at position p: the position after the reference
skipRefIdData(data, p) ==
    LET q == SkipBins(data, p + 4, GetInt(data, p))
    IN  q + 4 + 8 * GetInt(data, q)

\* no refId argument
RefIdUndefined == -1

\* the loop over the references: ref is the reference at position p
RECURSIVE RefLoop(_, _, _, _, _, _)
RefLoop(data, p, ref, numRefs, refId, parsed) ==
    IF ref >= numRefs THEN parsed
    ELSE IF refId = RefIdUndefined \/ refId = ref
         THEN LET r == parseRefIdData(data, p)
              IN  RefLoop(data, r.position, ref + 1, numRefs, refId, Append(parsed, r.ref))
         ELSE RefLoop(data, skipRefIdData(data, p), ref + 1, numRefs, refId, parsed)

readBamIndexData(data, refId) ==
    IF GetInt(data, 0) # BAI_MAGIC THEN [status |-> "Not a BAI file", refData |-> <<>>]
    ELSE [status |-> "ok", refData |-> RefLoop(data, 8, 0, GetInt(data, 4), refId, <<>>)]

readBamIndex(data) == readBamIndexData(data, RefIdUndefined)

\* an index of a JavaScript array past its end
UndefinedRef == [undefined |-> TRUE]

\* refData[refId] of the index read for one reference
readBamIndexRef(data, refId) ==
    LET read == readBamIndexData(data, refId)
    IN  IF read.status # "ok" THEN [status |-> read.status, ref |-> UndefinedRef]
        ELSE [status |-> "ok",
              ref |-> IF refId + 1 \in DOMAIN read.refData THEN read.refData[refId + 1]
                      ELSE UndefinedRef]

(***************************************************************************)
(* The BAI files read: up to MaxRefs references, with and without bins,    *)
(* pseudo-bins and intervals, and one file that is no BAI file.            *)
(***************************************************************************)
MaxRefs == 3

PseudoBin ==
    [bin |-> PSEUDO_BIN_MAGIC,
     chunks |-> <<RawChunk(0, 0, 65536, 0), RawChunk(0, 2, 0, 0)>>]

BaiRefs ==
    {[bins |-> <<>>, intervals |-> <<>>],
     [bins |-> <<[bin |-> 0, chunks |-> <<RawChunk(0, 0, 0, 1)>>]>>,
      intervals |-> <<RawVO(0, 0)>>],
     [bins |-> <<[bin |-> 4681,
                  chunks |-> <<RawChunk(0, 1, 65024, 0), RawChunk(65536, 0, 65536, 1)>>],
                 PseudoBin>>,
      intervals |-> <<RawVO(0, 1), RawVO(65024, 1)>>],
     [bins |-> <<PseudoBin, [bin |-> 4682, chunks |-> <<RawChunk(65024, 0, 65024, 1)>>]>>,
      intervals |-> <<>>]}

BaiFiles ==
    {[refs |-> refs, bytes |-> WrittenBai(BAI_MAGIC, refs)] :
        refs \in UNION {[1..n -> BaiRefs] : n \in 0..MaxRefs}}
    \cup {[refs |-> <<>>, bytes |-> WrittenBai(BAI_MAGIC + 1, <<>>)]}

NoBaiCall == [op |-> "none", refId |-> RefIdUndefined, status |-> "none", refData |-> <<>>,
              ref |-> UndefinedRef]

BaiInit == baiFile \in BaiFiles /\ baiCall = NoBaiCall

BaiIdle == baiFile = <<>> /\ baiCall = NoBaiCall

\* await readBamIndex(loader)
CallReadBamIndex ==
    /\ LET read == readBamIndex(baiFile.bytes)
       IN  baiCall' = [op |-> "readBamIndex", refId |-> RefIdUndefined, status |-> read.status,
                       refData |-> read.refData, ref |-> UndefinedRef]
    /\ UNCHANGED baiFile
    /\ UNCHANGED <<coreVars, notBai>>

\* await readBamIndexRef(loader, refId), for a refId of the file
CallReadBamIndexRef ==
    /\ \E refId \in 0..(Len(baiFile.refs) - 1) :
          LET read == readBamIndexRef(baiFile.bytes, refId)
          IN  baiCall' = [op |-> "readBamIndexRef", refId |-> refId,
                          status |-> read.status,
                          refData |-> readBamIndexData(baiFile.bytes, refId).refData,
                          ref |-> read.ref]
    /\ UNCHANGED baiFile
    /\ UNCHANGED <<coreVars, notBai>>

(***************************************************************************)
(* The earlier index reader: the index holds inflated chunks, and          *)
(* blocksForRange hands these objects themselves to optimizeChunks.        *)
(***************************************************************************)
\* for (let bin in binIndex): the keys in ascending order; the chunks of a
\* bin are left out when overlappingBins includes it.  A chunk object is
\* written with the bin and the place it has in the index.
RECURSIVE PastChunksOfBins(_, _, _)
PastChunksOfBins(binIndex, bins, overlappingBins) ==
    IF bins = {} THEN <<>>
    ELSE LET bin == CHOOSE b \in bins : \A other \in bins : b <= other
             objects == [c \in DOMAIN binIndex[bin] |->
                            [start |-> binIndex[bin][c].start, end |-> binIndex[bin][c].end,
                             bin |-> bin, at |-> c]]
         IN  (IF Includes(overlappingBins, bin) THEN <<>> ELSE objects)
             \o PastChunksOfBins(binIndex, bins \ {bin}, overlappingBins)

\* the loop over the linear index; linearIndex[i] outside the array is
\* undefined and is passed over
RECURSIVE PastLowestFrom(_, _, _, _)
PastLowestFrom(linearIndex, i, maxLin, lowest) ==
    IF i > maxLin THEN lowest
    ELSE IF (i + 1) \notin DOMAIN linearIndex
    THEN PastLowestFrom(linearIndex, i + 1, maxLin, lowest)
    ELSE LET offset == linearIndex[i + 1]
         IN  PastLowestFrom(linearIndex, i + 1, maxLin,
                            IF ~lowest.defined \/ isVOLessThan(offset, lowest.vo)
                            THEN Lowest(offset) ELSE lowest)

\* optimizeChunks on the chunk objects of the index: the chunks returned
\* and the end each object has when it returns
PastOptimizeChunks(chunks, lowest) ==
    LET sorted == SortChunks(chunks)
        acc == MergeLoop(sorted, lowest, 1,
                         [merged |-> <<>>, cur |-> 0,
                          ends |-> [k \in DOMAIN sorted |-> sorted[k].end]])
    IN  [chunks |-> [c \in DOMAIN acc.merged |->
                        [start |-> sorted[acc.merged[c]].start,
                         end |-> acc.ends[acc.merged[c]]]],
         sorted |-> sorted,
         ends |-> acc.ends]

\* blocksForRange(bamIndex, refId, start, end) of the earlier reader, for
\* the reference ref = bamIndex[refId]: what it resolves to, and the index
\* as the call leaves it
PastBlocksForRange(ref, start, end) ==
    LET overlappingBins == reg2bins(start, end)
        allChunks == PastChunksOfBins(ref.binIndex, DOMAIN ref.binIndex, overlappingBins)
        minLin == Min(Shr(start, 14), Len(ref.linearIndex) - 1)
        maxLin == Max(Shr(start, 14), Len(ref.linearIndex) - 1)
        lowest == PastLowestFrom(ref.linearIndex, minLin, maxLin, NoLowest)
        optimized == PastOptimizeChunks(allChunks, lowest)
        EndNow(bin, c) ==
            IF \E k \in DOMAIN optimized.sorted :
                  optimized.sorted[k].bin = bin /\ optimized.sorted[k].at = c
            THEN optimized.ends[CHOOSE k \in DOMAIN optimized.sorted :
                                   optimized.sorted[k].bin = bin
                                   /\ optimized.sorted[k].at = c]
            ELSE ref.binIndex[bin][c].end
    IN  [out |-> Returned(optimized.chunks),
         index |-> [ref EXCEPT !.binIndex =
                      [bin \in DOMAIN ref.binIndex |->
                          [c \in DOMAIN ref.binIndex[bin] |->
                              [start |-> ref.binIndex[bin][c].start,
                               end |-> EndNow(bin, c)]]]]]

\* the index as the earlier reader parses it: every offset inflated
PastIndexes ==
    {[binIndex |-> [bin \in DOMAIN r.binIndex |->
                       [c \in DOMAIN r.binIndex[bin] |-> inflateChunk(r.binIndex[bin][c])]],
      linearIndex |-> [i \in DOMAIN r.linearIndex |->
                          inflateVirtualOffset(r.linearIndex[i])]] :
        r \in {x \in RefIndexes : Len(x.linearIndex) <= 1}}

PastInit ==
    /\ bamIndex \in PastIndexes
    /\ pastQuery = NoQuery
    /\ pastOut = NoBlocks

PastIdle ==
    /\ bamIndex = <<>>
    /\ pastQuery = NoQuery
    /\ pastOut = NoBlocks

\* one call of the earlier blocksForRange on the parsed index
CallPastBlocksForRange ==
    /\ \E q \in IndexQueries :
          LET answer == PastBlocksForRange(bamIndex, q.start, q.end)
          IN  /\ pastQuery' = q
              /\ pastOut' = answer.out
              /\ bamIndex' = answer.index
    /\ UNCHANGED <<coreVars, notPast>>

(***************************************************************************)
(* Two read calls on one BigWigReader whose header is cached.  A call runs *)
(* from one awaited fetch of the DataLoader to the next; between two       *)
(* fetches of one call the other call may run.  The calls share the file,  *)
(* the cached header and this.bufferSize.                                  *)
(***************************************************************************)
\* const data: Array<T> = [] of readData: the list of call i
ListOfFirst(i) == 1

ListOf(i) == i

NewPairRead ==
    [pc |-> "ready", stage |-> "none", want |-> [start |-> 0, size |-> 0],
     q |-> <<>>, stack |-> <<>>, leafNodes |-> <<>>, next |-> 1,
     status |-> "none", out |-> <<>>, buffer |-> UndefinedBuffer, crossed |-> FALSE]

\* the call is at bufferedLoader.load(start, size)
PairWant(r, stage, start, size) ==
    [r EXCEPT !.pc = "load", !.stage = stage, !.want = [start |-> start, size |-> size]]

\* loadData returns or throws
PairDone(r, status) == [r EXCEPT !.pc = "done", !.status = status]

\* the leaf loop of loadData: the next leaf's block is loaded, or it ends
PairNextLeaf(r) ==
    IF r.next > Len(r.leafNodes) THEN PairDone(r, "ok")
    ELSE PairWant(r, "leaf", r.leafNodes[r.next].dataOffset, r.leafNodes[r.next].dataSize)

\* the head of loadData with the cached header, up to the first load
PairEnter(args) ==
    LET sci == ChromIndex(args.startChrom)
        eci == ChromIndex(args.endChrom)
    IN  IF sci.is = "undefined" \/ eci.is = "undefined"
        THEN PairDone(NewPairRead, "DataMissingError")
        ELSE PairWant([NewPairRead EXCEPT
                         !.q = [sci |-> sci, startBase |-> args.startBase,
                                eci |-> eci, endBase |-> args.endBase]],
                      "magic", file.treeOffset, RPTREE_HEADER_SIZE)

\* loadData and loadLeafNodesForRPNode from the load that answered res up
\* to the next load: the call, and the records handed to the loadFunction
PairAfterLoad(r, res) ==
    IF res.status # "ok" THEN [r |-> PairDone(r, res.status), push |-> <<>>]
    ELSE IF r.stage = "magic"
    THEN IF IDX_MAGIC # ParseMagic(res.data)
         THEN [r |-> PairDone(r, "FileFormatError"), push |-> <<>>]
         ELSE LET rootNodeOffset == file.treeOffset + RPTREE_HEADER_SIZE
              IN  [r |-> PairWant([r EXCEPT !.stack = <<Frame(rootNodeOffset)>>],
                                  "nodeHeader", rootNodeOffset, NodeHeaderSize),
                   push |-> <<>>]
    ELSE IF r.stage = "nodeHeader"
    THEN LET h == ParseNodeHeader(res.data)
             n == Len(r.stack)
             top == r.stack[n]
             bytesRequired == h.count * (IF h.isLeaf THEN RPTREE_NODE_LEAF_ITEM_SIZE
                                         ELSE RPTREE_NODE_CHILD_ITEM_SIZE)
         IN  [r |-> PairWant([r EXCEPT !.stack[n] = [top EXCEPT !.isLeaf = h.isLeaf,
                                                                !.count = h.count]],
                             "nodeData", top.offset + NodeHeaderSize, bytesRequired),
              push |-> <<>>]
    ELSE IF r.stage = "nodeData"
    THEN LET n == Len(r.stack)
             top == r.stack[n]
             items == ParseNodeItems(res.data, top.count)
             stack == [r.stack EXCEPT ![n] = [top EXCEPT !.items = items,
                                                         !.count = Len(items)]]
             step == Resume(stack, r.q)
         IN  IF step.kind = "await"
             THEN [r |-> PairWant([r EXCEPT !.stack = step.stack], "nodeHeader",
                                  step.stack[Len(step.stack)].offset, NodeHeaderSize),
                   push |-> <<>>]
             ELSE [r |-> PairNextLeaf([r EXCEPT !.stack = <<>>,
                                                !.leafNodes = step.leafNodes,
                                                !.next = 1]),
                   push |-> <<>>]
    ELSE LET stored == ParseBlock(res.data)
             leafData == IF file.uncompressBuffSize > 0 THEN Inflate(stored)
                         ELSE [status |-> "ok", block |-> stored.block]
             q == [sc |-> r.q.sci.n, sb |-> r.q.startBase,
                   ec |-> r.q.eci.n, eb |-> r.q.endBase]
         IN  IF leafData.status # "ok"
             THEN [r |-> PairDone(r, leafData.status), push |-> <<>>]
             ELSE [r |-> PairNextLeaf([r EXCEPT !.next = @ + 1]),
                   push |-> Decode(file.kind, leafData.block, q)]

\* the call runs on while its loads are served from its buffer: up to a
\* load that has to fetch, or to the end of loadData
RECURSIVE PairRun(_, _)
PairRun(r, list) ==
    IF r.pc # "load" THEN [r |-> r, list |-> list]
    ELSE IF bufferContainsData(r.buffer, r.want.start, r.want.size)
    THEN LET after == PairAfterLoad(r, GetDataFromBuffer(r.buffer, r.want.start,
                                                         r.want.size))
         IN  PairRun(after.r, ReadPush(list, after.push))
    ELSE [r |-> [r EXCEPT !.pc = "fetch1"], list |-> list]

\* the fetch the call waits for is answered by the transport
PairAnswered(r, list) ==
    LET a == TransportRange(r.want.start, r.pc = "fetch1", bufferSize)
        b == [defined |-> TRUE, data |-> FileBytes(a.from, a.to), start |-> r.want.start,
              hasRemaining |-> FALSE, remainingBytes |-> 0]
    IN  IF a.status = "ok"
        THEN LET after == PairAfterLoad([r EXCEPT !.buffer = b],
                                        GetDataFromBuffer(b, r.want.start, r.want.size))
             IN  PairRun(after.r, ReadPush(list, after.push))
        ELSE IF r.pc = "fetch1" /\ Retries(a.status)
        THEN [r |-> [r EXCEPT !.pc = "fetch2"], list |-> list]
        ELSE [r |-> PairDone(r, a.status), list |-> list]

\* return data: what the caller gets when loadData has returned
PairReturned(r, list) ==
    IF r.pc = "done" /\ r.status = "ok" THEN [r EXCEPT !.out = list] ELSE r

Fetching(r) == r.pc \in {"fetch1", "fetch2"}

Other(i) == 3 - i

\* readBigWigData / readBigBedData of call i, up to its first fetch
PairReadData ==
    /\ \E i \in {1, 2} :
          /\ reads[i].pc = "ready"
          /\ LET ran == PairRun(PairEnter(readArgs[i]), <<>>)
                 r == [ran.r EXCEPT !.crossed = Fetching(reads[Other(i)])]
             IN  /\ reads' = [reads EXCEPT ![i] = PairReturned(r, ran.list)]
                 /\ lists' = [lists EXCEPT ![ListOf(i)] = ran.list]
    /\ UNCHANGED readArgs
    /\ UNCHANGED <<coreVars, notPair>>

\* a fetch of call i is answered and the call runs on to its next fetch
PairLoadAnswered ==
    /\ \E i \in {1, 2} :
          /\ Fetching(reads[i])
          /\ LET ran == PairAnswered(reads[i], lists[ListOf(i)])
                 r == [ran.r EXCEPT !.crossed = @ \/ Fetching(reads[Other(i)])]
             IN  /\ reads' = [reads EXCEPT ![i] = PairReturned(r, ran.list)]
                 /\ lists' = [lists EXCEPT ![ListOf(i)] = ran.list]
    /\ UNCHANGED readArgs
    /\ UNCHANGED <<coreVars, notPair>>

\* the call run alone from r on: every fetch answered as it is made
RECURSIVE PairAlone(_, _)
PairAlone(r, list) ==
    IF Fetching(r)
    THEN LET ran == PairAnswered(r, list) IN PairAlone(ran.r, ran.list)
    ELSE PairReturned(r, list)

PairFiles ==
    {DeepFile("wig", TRUE, IDX_MAGIC), DeepFile("bed", FALSE, IDX_MAGIC),
     FlatFile("bed", FALSE, IDX_MAGIC), CorruptTail(DeepFile("bed", TRUE, IDX_MAGIC))}

PairArgs ==
    {[startChrom |-> "chr1", startBase |-> 0, endChrom |-> "chr1", endBase |-> 3],
     [startChrom |-> "chr1", startBase |-> 2, endChrom |-> "chr2", endBase |-> 3],
     [startChrom |-> "chr2", startBase |-> 0, endChrom |-> "chr2", endBase |-> 3],
     [startChrom |-> "chrX", startBase |-> 0, endChrom |-> "chr1", endBase |-> 3]}

PairBufferSizes == {16, 64}

PairInit ==
    /\ readArgs \in PairArgs \X PairArgs
    /\ reads = <<NewPairRead, NewPairRead>>
    /\ lists = <<<<>>, <<>>>>

PairIdle == readArgs = <<>> /\ reads = <<>> /\ lists = <<>>

\* the reader of the pair: its file, its DataLoader and its bufferSize
PairReaderInit ==
    /\ file \in PairFiles
    /\ query = <<>>
    /\ rd = <<>>
    /\ readOut = <<>>
    /\ fileLen = file.len
    /\ tailPolicy \in {"outOfRange", "truncate"}
    /\ hasLoadStream = FALSE
    /\ chunkSizes = {}
    /\ legacy = FALSE
    /\ \E size \in PairBufferSizes : NewLoader(FALSE, size)

\* where a group rests while another specification runs
BinsIdle == binsRegion = NoRegion /\ binsOut = <<>>

BgzfIdle == bgzfInput = <<>> /\ bgzfOut = NotUnzipped

BamIdle == bam = <<>> /\ bamQuery = <<>> /\ bamCall = <<>>

TwoBitIdle == twoBit = <<>> /\ tbQuery = <<>> /\ tbOut = <<>>

ExtIdle == IndexIdle /\ BinsIdle /\ BgzfIdle /\ BamIdle /\ FeatIdle /\ TwoBitIdle /\ HdrIdle /\ BaiIdle /\ PastIdle /\ PairIdle

(***************************************************************************)
(* SpecDecode: one decode call on an arbitrary block and query.            *)
(***************************************************************************)
DecodeInit ==
    /\ dPc = "ready"
    /\ dKind \in {"wig", "bed", "zoom"}
    /\ dBlock \in BlocksOf(dKind)
    /\ dQuery \in Queries
    /\ dOut = <<>>

DecodeIdle ==
    /\ dPc = "idle"
    /\ dKind = "none"
    /\ dBlock = <<>>
    /\ dQuery = <<>>
    /\ dOut = <<>>

DecodeWig ==
    /\ dPc = "ready" /\ dKind = "wig"
    /\ dOut' = decodeWigData(dBlock, dQuery)
    /\ dPc' = "done"
    /\ UNCHANGED <<dKind, dBlock, dQuery, envVars, loaderVars, cacheVars, readerVars, extVars>>

DecodeBed ==
    /\ dPc = "ready" /\ dKind = "bed"
    /\ dOut' = decodeBedData(dBlock, dQuery)
    /\ dPc' = "done"
    /\ UNCHANGED <<dKind, dBlock, dQuery, envVars, loaderVars, cacheVars, readerVars, extVars>>

DecodeZoom ==
    /\ dPc = "ready" /\ dKind = "zoom"
    /\ dOut' = decodeZoomData(dBlock, dQuery)
    /\ dPc' = "done"
    /\ UNCHANGED <<dKind, dBlock, dQuery, envVars, loaderVars, cacheVars, readerVars, extVars>>

DecodeNext == DecodeWig \/ DecodeBed \/ DecodeZoom

InitDecode == DecodeInit /\ LoaderIdle /\ CacheIdle /\ ReaderIdle /\ ExtIdle

SpecDecode == InitDecode /\ [][DecodeNext]_vars

(***************************************************************************)
(* SpecLoader: one BufferedDataLoader under any sequence of load calls,    *)
(* each issued when the one before has settled.                            *)
(***************************************************************************)
ClientLoadFromBuffer ==
    /\ \E start \in 0..fileLen, size \in 0..MaxLoadSize : LoadFromBuffer(start, size)
    /\ UNCHANGED nonLoaderVars

ClientLoadMiss ==
    /\ \E start \in 0..fileLen, size \in 0..MaxLoadSize : LoadMiss(start, size)
    /\ UNCHANGED nonLoaderVars

ClientStreamMiss ==
    /\ \E start \in 0..fileLen, size \in 0..MaxLoadSize : StreamMiss(start, size)
    /\ UNCHANGED nonLoaderVars

InitLoader == DecodeIdle /\ LoaderInit /\ CacheIdle /\ ReaderIdle /\ ExtIdle

LoaderNext ==
    \/ ClientLoadFromBuffer
    \/ ClientLoadMiss
    \/ ClientStreamMiss
    \/ LoadAnswered
    \/ StreamAnswered
    \/ StreamDataArrives
    \/ StreamEnd

SpecLoader == InitLoader /\ [][LoaderNext]_vars

(***************************************************************************)
(* SpecCache: any sequential series of getter calls on one BigWigReader    *)
(* and one BamReader.                                                      *)
(***************************************************************************)
InitCache == DecodeIdle /\ LoaderIdle /\ CacheInit /\ ReaderIdle /\ ExtIdle

CacheNext == GetHeader \/ GetSequenceRecord \/ GetIndexData \/ GetHeaderData

SpecCache == InitCache /\ [][CacheNext]_vars

(***************************************************************************)
(* SpecReader: one read* call and then the stream* call with the same      *)
(* arguments, on one file, each through its own BufferedDataLoader.        *)
(***************************************************************************)
InitReader == DecodeIdle /\ CacheIdle /\ ReaderInit /\ ExtIdle

ReaderNext ==
    \/ ReadData
    \/ StreamDataCall
    \/ LoadMagic
    \/ AfterMagic
    \/ AfterNodeHeader
    \/ AfterNodeData
    \/ AfterLeafData
    \/ LoadAnswered
    \/ StreamAnswered
    \/ StreamDataArrives
    \/ StreamEnd

SpecReader == InitReader /\ [][ReaderNext]_vars

(***************************************************************************)
(* SpecIndex: blocksForRange called on a parsed index of one reference.    *)
(***************************************************************************)
CoreIdle == DecodeIdle /\ LoaderIdle /\ CacheIdle /\ ReaderIdle

InitIndex == CoreIdle /\ IndexInit /\ BinsIdle /\ BgzfIdle /\ BamIdle /\ FeatIdle /\ TwoBitIdle /\ HdrIdle /\ BaiIdle /\ PastIdle /\ PairIdle

IndexNext == CallBlocksForRange

SpecIndex == InitIndex /\ [][IndexNext]_vars

(***************************************************************************)
(* SpecBam: one BamReader.read call on a BAM file and its index.           *)
(***************************************************************************)
InitBam == CoreIdle /\ IndexIdle /\ BinsIdle /\ BgzfIdle /\ BamInit /\ FeatIdle /\ TwoBitIdle /\ HdrIdle /\ BaiIdle /\ PastIdle /\ PairIdle

BamNext == BamRead \/ BamReadFails \/ BamChunkLoaded \/ BamChunkFails \/ BamReturns

SpecBam == InitBam /\ [][BamNext]_vars

(***************************************************************************)
(* SpecFeatures: readBamFeatures called on a buffer of alignment records.  *)
(***************************************************************************)
InitFeatures == CoreIdle /\ IndexIdle /\ BinsIdle /\ BgzfIdle /\ BamIdle /\ FeatInit /\ TwoBitIdle /\ HdrIdle /\ BaiIdle /\ PastIdle /\ PairIdle

FeaturesNext == CallReadBamFeatures

SpecFeatures == InitFeatures /\ [][FeaturesNext]_vars

(***************************************************************************)
(* SpecBins: reg2bins called on a region.                                  *)
(***************************************************************************)
InitBins == CoreIdle /\ IndexIdle /\ BinsInit /\ BgzfIdle /\ BamIdle /\ FeatIdle /\ TwoBitIdle /\ HdrIdle /\ BaiIdle /\ PastIdle /\ PairIdle

BinsNext == CallReg2Bins

SpecBins == InitBins /\ [][BinsNext]_vars

(***************************************************************************)
(* SpecBgzf: bgzfUnzip called on an input of BGZF members.                 *)
(***************************************************************************)
InitBgzf == CoreIdle /\ IndexIdle /\ BinsIdle /\ BgzfInit /\ BamIdle /\ FeatIdle /\ TwoBitIdle /\ HdrIdle /\ BaiIdle /\ PastIdle /\ PairIdle

BgzfNext == CallBgzfUnzip

SpecBgzf == InitBgzf /\ [][BgzfNext]_vars

(***************************************************************************)
(* SpecTwoBit: one readTwoBitData call on a 2bit sequence.                 *)
(***************************************************************************)
InitTwoBit == CoreIdle /\ IndexIdle /\ BinsIdle /\ BgzfIdle /\ BamIdle /\ FeatIdle /\ TwoBitInit /\ HdrIdle /\ BaiIdle /\ PastIdle /\ PairIdle

TwoBitNext == ReadTwoBitData

SpecTwoBit == InitTwoBit /\ [][TwoBitNext]_vars

(***************************************************************************)
(* SpecHeader: one read on a file written in either byte order.            *)
(***************************************************************************)
InitHeader == CoreIdle /\ IndexIdle /\ BinsIdle /\ BgzfIdle /\ BamIdle /\ FeatIdle /\ TwoBitIdle /\ HdrInit /\ BaiIdle /\ PastIdle /\ PairIdle

HeaderNext == HdrGetHeader \/ HdrLoadData \/ HdrLoadNode \/ HdrDecode

SpecHeader == InitHeader /\ [][HeaderNext]_vars

(***************************************************************************)
(* SpecBai: readBamIndex and readBamIndexRef calls on a BAI file.          *)
(***************************************************************************)
InitBai == CoreIdle /\ IndexIdle /\ BinsIdle /\ BgzfIdle /\ BamIdle /\ FeatIdle /\ TwoBitIdle /\ HdrIdle /\ BaiInit /\ PastIdle /\ PairIdle

BaiNext == CallReadBamIndex \/ CallReadBamIndexRef

SpecBai == InitBai /\ [][BaiNext]_vars

(***************************************************************************)
(* SpecPastIndex: blocksForRange calls of the earlier index reader.        *)
(***************************************************************************)
InitPastIndex == CoreIdle /\ IndexIdle /\ BinsIdle /\ BgzfIdle /\ BamIdle /\ FeatIdle /\ TwoBitIdle /\ HdrIdle /\ BaiIdle /\ PastInit /\ PairIdle

PastIndexNext == CallPastBlocksForRange

SpecPastIndex == InitPastIndex /\ [][PastIndexNext]_vars

(***************************************************************************)
(* SpecPair: two read calls on one reader, interleaved at their fetches.   *)
(***************************************************************************)
InitPair == DecodeIdle /\ CacheIdle /\ PairReaderInit /\ IndexIdle /\ BinsIdle /\ BgzfIdle /\ BamIdle /\ FeatIdle /\ TwoBitIdle /\ HdrIdle /\ BaiIdle /\ PastIdle /\ PairInit

PairNext == PairReadData \/ PairLoadAnswered

SpecPair == InitPair /\ [][PairNext]_vars

(***************************************************************************)
(* C1: every record a decoder emits has its chromosome id in [startChrom,  *)
(* endChrom]; on startChrom its end is >= startBase; on endChrom its       *)
(* start is < endBase.                                                     *)
(***************************************************************************)
InQueryRange(r, q) ==
    LET id == chromToId[r.chr]
    IN  /\ id >= q.sc /\ id <= q.ec
        /\ (id = q.sc => r.end >= q.sb)
        /\ (id = q.ec => r.start < q.eb)

C1_EmittedRecordsInRange ==
    dPc = "done" => \A i \in DOMAIN dOut : InQueryRange(dOut[i], dQuery)

\* a decode that emitted two records, one ending exactly at startBase, and
\* that dropped a record of the block
C1_Witness ==
    /\ dPc = "done" /\ dKind = "bed"
    /\ Len(dOut) = 2
    /\ Len(dBlock.records) > 2 - 1
    /\ dOut[1].end = dQuery.sb
    /\ chromToId[dOut[1].chr] = dQuery.sc
    /\ chromToId[dOut[2].chr] = dQuery.ec

(***************************************************************************)
(* Shorthands of the loader claims.                                        *)
(***************************************************************************)
CallMade == call.pc # "idle" \/ call.res.status # "none"

CallSettled == call.pc = "idle" /\ call.res.status # "none"

TransportFailed ==
    \E i \in DOMAIN call.reqs : call.reqs[i].outcome = "TransportError"

LastOutcome == call.reqs[Len(call.reqs)].outcome

\* the range [bufStart, bufEnd) of the buffer the call found
PreContains(start, size) ==
    LET b == call.pre
        bufEnd == b.start + Len(b.data) + (IF b.hasRemaining THEN b.remainingBytes ELSE 0)
    IN  b.defined /\ b.start <= start /\ start + size <= bufEnd

(***************************************************************************)
(* C2: in non-streaming mode every load(start, size) whose range lies      *)
(* inside the resource resolves with exactly the resource bytes            *)
(* [start, start + size), whatever size is relative to bufferSize (the     *)
(* transport itself not failing).                                          *)
(***************************************************************************)
C2_InRangeLoadReturnsBytes ==
    (/\ ~streamMode /\ CallSettled /\ ~TransportFailed
     /\ call.size > 0 /\ call.start + call.size <= fileLen)
    => call.res = [status |-> "ok",
                   data |-> FileBytes(call.start, call.start + call.size)]

\* the part of C2 the loader does satisfy: loads of at most bufferSize bytes
LoadUpToBufferSizeReturnsBytes ==
    (/\ ~streamMode /\ CallSettled /\ ~TransportFailed
     /\ call.size > 0 /\ call.start + call.size <= fileLen
     /\ call.size <= bufferSize)
    => call.res = [status |-> "ok",
                   data |-> FileBytes(call.start, call.start + call.size)]

(***************************************************************************)
(* C3: a load whose range is contained in the buffered range               *)
(* [bufStart, bufEnd), boundaries included, makes no request to the        *)
(* underlying loader; any other load requests at offset start, and the     *)
(* answer replaces the buffer.                                             *)
(***************************************************************************)
C3_HitIffContained ==
    CallMade =>
        IF PreContains(call.start, call.size)
        THEN call.reqs = <<>>
        ELSE (hasLoadStream \/ ~streamMode) =>
               /\ call.reqs # <<>>
               /\ \A i \in DOMAIN call.reqs : call.reqs[i].start = call.start
               /\ LastOutcome = "ok" =>
                    /\ buffer.defined
                    /\ buffer.start = call.start
                         + (IF streamMode /\ call.res.status = "ok" THEN call.size ELSE 0)

\* the part of C3 that holds: the loader the readers import serves a load of
\* exactly the buffered range without a request; the loader of DataLoader.ts
\* tests start > bufStart and end < bufEnd and fetches again
ImportedLoaderHitIffContained == ~legacy => C3_HitIffContained

(***************************************************************************)
(* C4: on a miss the first request asks bufferSize bytes at the offset; a  *)
(* retry with no size is made exactly when that request failed with        *)
(* OutOfRange; a failed retry or any other failure of the first request    *)
(* is the call's failure, with no further request and the buffer kept.     *)
(***************************************************************************)
C4_RetryOnceOnOutOfRange ==
    LET r == call.reqs
    IN  /\ Len(r) <= 2
        /\ Len(r) >= 1 =>
             /\ r[1].start = call.start /\ r[1].sized /\ r[1].size = bufferSize
             /\ (r[1].outcome = "OutOfRange" <=> Len(r) = 2)
        /\ Len(r) = 2 => r[2].start = call.start /\ ~r[2].sized
        /\ (Len(r) >= 1 /\ LastOutcome \notin {"ok", "pending"}) =>
             /\ call.pc = "idle"
             /\ call.res.status = LastOutcome
             /\ buffer = call.pre

\* an OutOfRange first request, a retry that failed too, a buffer that was kept
C4_Witness ==
    /\ CallSettled /\ Len(call.reqs) = 2
    /\ call.reqs[1].outcome = "OutOfRange"
    /\ call.reqs[2].outcome = "TransportError"
    /\ call.res.status = "TransportError"
    /\ call.pre.defined /\ buffer = call.pre

(***************************************************************************)
(* C5: in streaming mode a load never stays pending on a stream that has   *)
(* ended short of the requested end: it fails, also when the stream had    *)
(* ended before the load was issued.                                       *)
(***************************************************************************)
C5_NoLoadPendingOnEndedStream ==
    ~(/\ call.pc = "wait"
      /\ stream.state = "ended"
      /\ buffer.start + Len(buffer.data) < call.start + call.size)

\* the part of C5 the loader does satisfy: a stream that ends while a load waits
LoadWaitingAtStreamEndFails ==
    [][(call.pc = "wait" /\ stream.state = "live" /\ stream'.state = "ended")
        => call'.res.status = "Stream ended prematurely"]_vars

(***************************************************************************)
(* C6: in streaming mode at most one stream opened by the loader is live,  *)
(* the one this.stream holds, and the buffer ends where that stream has    *)
(* delivered to: its bytes are the chunks of the stream opened for it.     *)
(***************************************************************************)
C6_OneLiveStreamFeedsBuffer ==
    /\ liveStreams <= 1
    /\ liveStreams = 1 => stream.state = "live"
    /\ stream.state \in {"live", "ended"} =>
         /\ buffer.defined /\ buffer.hasRemaining
         /\ buffer.start + Len(buffer.data) = stream.pos
         /\ buffer.data = FileBytes(buffer.start, stream.pos)

\* a re-seek: the buffer the call found was still being fed, and a new stream is live
C6_Witness ==
    /\ streamMode /\ tailPolicy = "truncate"
    /\ call.pre.defined /\ call.pre.hasRemaining /\ call.pre.remainingBytes > 0
    /\ call.pre.start + Len(call.pre.data) < fileLen
    /\ Len(call.reqs) = 1 /\ call.reqs[1].outcome = "ok"
    /\ stream.state = "live" /\ stream.pos > call.start
    /\ liveStreams = 1

(***************************************************************************)
(* C7: once a getter has loaded its artifact successfully, every later     *)
(* call of that getter for that artifact returns the value that load built *)
(* and issues no request to the DataLoader.                                *)
(***************************************************************************)
C7_LoadedOnceThenServedFromCache ==
    (cCall.op # "none" /\ cCall.before # Undefined) =>
        /\ cCall.status = "ok"
        /\ cCall.value = cCall.before
        /\ cCall.requests = 0

\* a second getSequenceRecord of a sequence, after a failed first attempt
C7_Witness ==
    /\ cCall.op = "getSequenceRecord" /\ cCall.arg = "seq1"
    /\ cCall.before # Undefined /\ cCall.before.load > 1
    /\ cCall.value = cCall.before /\ cCall.requests = 0
    /\ calls = MaxCalls
    /\ headerData # Undefined /\ cachedHeader.load = 1

(***************************************************************************)
(* The file's on-disk order: the leaf items in the in-order traversal of   *)
(* the R+ tree, and under each leaf item the records of its block as they  *)
(* are stored.  A record is known by the number it carries.                *)
(***************************************************************************)
RECURSIVE InOrderLeaves(_, _)
InOrderLeaves(offset, i) ==
    LET node == file.nodes[offset]
    IN  IF i > Len(node.items) THEN <<>>
        ELSE (IF node.isLeaf THEN <<node.items[i]>>
              ELSE InOrderLeaves(node.items[i].childOffset, 1))
             \o InOrderLeaves(offset, i + 1)

NumberOf(r) ==
    CASE file.kind = "wig"  -> r.value
      [] file.kind = "bed"  -> r.rest
      [] file.kind = "zoom" -> r.validCount

StoredRecords(leaf) ==
    LET b == file.blocks[leaf.dataOffset].block
    IN  IF file.kind = "wig" THEN b.items ELSE b.records

RECURSIVE NumbersOnDisk(_, _)
NumbersOnDisk(leaves, i) ==
    IF i > Len(leaves) THEN <<>>
    ELSE [k \in DOMAIN StoredRecords(leaves[i]) |-> NumberOf(StoredRecords(leaves[i])[k])]
         \o NumbersOnDisk(leaves, i + 1)

OnDisk == NumbersOnDisk(InOrderLeaves(file.treeOffset + RPTREE_HEADER_SIZE, 1), 1)

DiskPosition(r) == CHOOSE k \in DOMAIN OnDisk : OnDisk[k] = NumberOf(r)

(***************************************************************************)
(* C8: the records of a call reach the caller in on-disk order: of two     *)
(* records emitted, the one emitted first is stored first, be it in an     *)
(* earlier leaf of the in-order traversal or earlier in the same block.    *)
(***************************************************************************)
C8_EmittedInOnDiskOrder ==
    /\ \A i \in DOMAIN rd.out : \E k \in DOMAIN OnDisk : OnDisk[k] = NumberOf(rd.out[i])
    /\ \A i, j \in DOMAIN rd.out :
         i < j => DiskPosition(rd.out[i]) < DiskPosition(rd.out[j])

\* a call on the two-level tree that emitted records of all three leaves
C8_Witness ==
    /\ rd.pc = "done" /\ rd.status = "ok"
    /\ ~file.nodes[file.treeOffset + RPTREE_HEADER_SIZE].isLeaf
    /\ Len(rd.leafNodes) = 3
    /\ Len(rd.out) >= 5

(***************************************************************************)
(* C9: what a stream* call has pushed is at every moment a prefix of the   *)
(* array the read* call with the same arguments returned; when the stream* *)
(* call returns it has pushed that whole array, and only then is the       *)
(* stream ended.                                                           *)
(***************************************************************************)
C9_StreamEmitsWhatReadReturns ==
    (rd.phase = "stream" /\ readOut.status = "ok") =>
        /\ Len(rd.out) <= Len(readOut.data)
        /\ rd.out = SubSeq(readOut.data, 1, Len(rd.out))
        /\ rd.ended <=> (rd.pc = "done" /\ rd.status = "ok")
        /\ rd.ended => rd.out = readOut.data

\* both calls returned, after several fetches and with records of several leaves
C9_Witness ==
    /\ rd.phase = "stream" /\ rd.pc = "done" /\ rd.status = "ok" /\ rd.ended
    /\ readOut.status = "ok" /\ Len(readOut.data) >= 4
    /\ rd.out = readOut.data
    /\ rd.loads > 4 /\ bufferSize < fileLen

\* with a loadStream and a transport that does not fail, stream* returns
\* whenever read* did
StreamReturnsWhenReadDid ==
    (rd.phase = "stream" /\ rd.pc = "done" /\ readOut.status = "ok" /\ hasLoadStream)
    => rd.status \in {"ok", "TransportError"}

(***************************************************************************)
(* C10: a call whose startChrom or endChrom is not a key of the file's     *)
(* chromosome dictionary requests nothing through its BufferedDataLoader   *)
(* and fails with a DataMissing error that names the chromosome.           *)
(***************************************************************************)
ValidZoomLevel == file.kind = "zoom" => query.zoomLevelIndex < file.zoomLevels

C10_MissingChromFailsBeforeTree ==
    (/\ ValidZoomLevel
     /\ \/ query.startChrom \notin DOMAIN chromToId
        \/ query.endChrom \notin DOMAIN chromToId)
    => /\ rd.loads = 0
       /\ rd.pc \in {"ready", "done"}
       /\ rd.pc = "done" =>
            /\ rd.status = "DataMissingError"
            /\ rd.missing = IF query.startChrom \notin DOMAIN chromToId
                            THEN query.startChrom ELSE query.endChrom

\* the part of C10 loadData does satisfy: a name whose lookup yields undefined
UndefinedLookupFailsBeforeTree ==
    (/\ ValidZoomLevel
     /\ \/ ChromIndex(query.startChrom).is = "undefined"
        \/ ChromIndex(query.endChrom).is = "undefined")
    => /\ rd.loads = 0
       /\ rd.pc \in {"ready", "done"}
       /\ rd.pc = "done" =>
            /\ rd.status = "DataMissingError"
            /\ rd.missing = IF ChromIndex(query.startChrom).is = "undefined"
                            THEN query.startChrom ELSE query.endChrom

(***************************************************************************)
(* BamReader.read                                                          *)
(***************************************************************************)
BamChrMissing == \A id \in DOMAIN bam.idToChrom : bam.idToChrom[id] # bamQuery.chr

\* the index and the header were read, the call ended
BamReadEnded == bamCall.pc = "done" /\ bamCall.status # "Error"

\* C11: BamReader.read(chr, start, end) with a chr that is not among the
\* reference names of the BAM header fails with a DataMissingError and
\* fetches no alignment chunk from the BAM file.
C11_MissingChrIsDataMissing ==
    (BamReadEnded /\ BamChrMissing)
        => (bamCall.status = "DataMissingError" /\ bamCall.fetched = 0)

\* what holds instead: the call fails with some error before any chunk is
\* fetched
MissingChrFailsBeforeFetch ==
    (bamCall.pc = "done" /\ BamChrMissing)
        => (bamCall.status # "ok" /\ bamCall.fetched = 0)

(***************************************************************************)
(* read* and stream* calls that fail                                       *)
(***************************************************************************)
\* what the caller's await on readData / streamData yields: the array, or
\* the stream with what was pushed on it, once the call returned; nothing
\* when loadData threw and the promise was rejected
ReceivedAlways(r) == r.out

Received(r) == IF r.status = "ok" THEN r.out ELSE <<>>

ReadFailed == rd.pc = "done" /\ rd.status # "ok"

FailedBamReadDeliversNothing ==
    (bamCall.pc = "done" /\ bamCall.status # "ok") => Awaited(bamCall) = <<>>

(***************************************************************************)
(* readBamFeatures                                                         *)
(***************************************************************************)
\* the records of the buffer that lie in it whole
WholeRecords ==
    SubSeq(featBuffer.records, 1, Len(featBuffer.records) - featBuffer.cut)

InBamQuery(refID, pos, seqLen) ==
    /\ refID = featQuery.refId
    /\ pos + seqLen >= featQuery.bpStart
    /\ pos <= featQuery.bpEnd

\* the names of the whole records of the buffer that are in the query
RECURSIVE NamesInQuery(_)
NamesInQuery(records) ==
    IF records = <<>> THEN <<>>
    ELSE (IF InBamQuery(Head(records).refID, Head(records).pos, Len(Head(records).seq))
          THEN <<Head(records).name>> ELSE <<>>) \o NamesInQuery(Tail(records))

\* C13: every alignment that readBamFeatures emits has blockRefID = refId,
\* pos + seqLen >= start and pos <= end, and a record that fails one of
\* these is skipped and not emitted: the emitted alignments are the records
\* of the buffer that pass, in their order.
C13_EmittedAlignmentsInQuery ==
    /\ \A i \in DOMAIN featOut.alignments :
          LET a == featOut.alignments[i]
          IN  InBamQuery(a.blockRefID, a.start, Len(a.seq))
    /\ featOut.status = "ok" =>
          [i \in DOMAIN featOut.alignments |-> featOut.alignments[i].readName]
              = NamesInQuery(WholeRecords)

\* two whole records, the first outside the query and skipped, the second
\* emitted
C13_Witness ==
    /\ featOut.status = "ok" /\ featBuffer.cut = 0
    /\ Len(featBuffer.records) = 2
    /\ Len(featOut.alignments) = 1
    /\ featOut.alignments[1].readName = featBuffer.records[2].name

(***************************************************************************)
(* readTwoBitData                                                          *)
(***************************************************************************)
\* no base of [from, to) lies in a block of N's
InsideNonN(from, to) ==
    \A k \in DOMAIN twoBit.nBlockStarts :
        \/ twoBit.nBlockStarts[k] + twoBit.nBlockSizes[k] <= from
        \/ twoBit.nBlockStarts[k] >= to

\* the bases at the 0-based positions from, ..., to - 1 in upper case
BasesAt(from, to) == [i \in 1..(to - from) |-> CHARMAPPING[DnaBases[from + i] + 1]]

UpperCase(c) ==
    CASE c = "t" -> "T" [] c = "c" -> "C" [] c = "a" -> "A" [] c = "g" -> "G"
      [] c = "n" -> "N" [] OTHER -> c

\* C14: for a half-open 0-based interval [start, end) that lies in a single
\* region without N's, readTwoBitData returns a string of length
\* end - start whose i-th character is the base at position start + i.
C14_StringIsTheInterval ==
    (tbOut.status = "ok" /\ InsideNonN(tbQuery.start, tbQuery.end)) =>
        /\ Len(tbOut.s) = tbQuery.end - tbQuery.start
        /\ [i \in DOMAIN tbOut.s |-> UpperCase(tbOut.s[i])]
               = BasesAt(tbQuery.start, tbQuery.end)

\* what holds instead: the string starts one base before start (at start
\* when start is 0)
StringStartsOneBaseBefore ==
    (tbOut.status = "ok"
     /\ InsideNonN(FirstBase(tbQuery.start), tbQuery.end)) =>
        [i \in DOMAIN tbOut.s |-> UpperCase(tbOut.s[i])]
            = BasesAt(FirstBase(tbQuery.start), tbQuery.end)

(***************************************************************************)
(* blocksForRange                                                          *)
(***************************************************************************)
\* first is not after second in the order of chunks.sort
StartsNotAfter(first, second) ==
    \/ first.start.blockPosition < second.start.blockPosition
    \/ (first.start.blockPosition = second.start.blockPosition
        /\ first.start.dataPosition <= second.start.dataPosition)

\* C15: the chunk list blocksForRange returns is sorted by start virtual
\* offset (blockPosition, then dataPosition), and two consecutive chunks of
\* it cannot be coalesced: next.start.blockPosition -
\* previous.end.blockPosition >= 65000.
C15_ChunksSortedAndApart ==
    \A i \in 1..(Len(ixOut.chunks) - 1) :
        /\ StartsNotAfter(ixOut.chunks[i], ixOut.chunks[i + 1])
        /\ ixOut.chunks[i + 1].start.blockPosition
              - ixOut.chunks[i].end.blockPosition >= 65000

\* the chunks of the overlapping bins, as blocksForRange collects them
CollectedChunks ==
    ChunksOfBins(refIndex.binIndex, DOMAIN refIndex.binIndex,
                 reg2bins(ixQuery.start, ixQuery.end))

\* two chunks are returned, from bins that hold three chunks not in the
\* order of their starts
C15_Witness ==
    /\ ixOut.status = "ok" /\ Len(ixOut.chunks) = 2
    /\ Len(CollectedChunks) = 3
    /\ CollectedChunks # SortChunks(CollectedChunks)

\* the lowest offset of the linear index over the windows of the call
LowestOfCall ==
    LowestFrom(refIndex.linearIndex,
               Min(Shr(ixQuery.start, 14), Len(refIndex.linearIndex) - 1),
               Max(Shr(ixQuery.end, 14), Len(refIndex.linearIndex) - 1), NoLowest)

AllOffsets ==
    {inflateVirtualOffset(o) : o \in LinearOffsets}
    \cup UNION {{inflateChunk(c).start, inflateChunk(c).end} : c \in IndexChunks}

\* C16: the comparison of virtual offsets (blockPosition first, then
\* dataPosition) is a strict total order, and when the linear index yields
\* a lowest offset, no chunk that blocksForRange returns ends before it.
C16_TotalOrderAndLowestBound ==
    /\ \A a, b \in AllOffsets :
          /\ ~isVOLessThan(a, a)
          /\ (a # b) => (isVOLessThan(a, b) /\ ~isVOLessThan(b, a))
                         \/ (isVOLessThan(b, a) /\ ~isVOLessThan(a, b))
          /\ \A c \in AllOffsets :
                (isVOLessThan(a, b) /\ isVOLessThan(b, c)) => isVOLessThan(a, c)
    /\ ixOut.status = "ok" =>
          \A i \in DOMAIN ixOut.chunks :
              ~isVOLessThan(ixOut.chunks[i].end, LowestOfCall.vo)

\* a chunk of an overlapping bin ends before the lowest offset, another is
\* returned
C16_Witness ==
    /\ ixOut.status = "ok" /\ ixOut.chunks # <<>>
    /\ \E k \in DOMAIN CollectedChunks :
          isVOLessThan(CollectedChunks[k].end, LowestOfCall.vo)

(***************************************************************************)
(* reg2bins                                                                *)
(***************************************************************************)
Reg2BinsCalled == binsOut # <<>>

BgzfUnzipCalled == bgzfOut # NotUnzipped

\* C18: for a BGZF input of the members m_1 .. m_k, decompressing the whole
\* input without a chunk yields the bytes that decompressing the span of
\* each member on its own yields, concatenated in order.
C18_WholeIsConcatOfMembers ==
    BgzfUnzipCalled =>
        /\ bgzfOut.whole.status = "ok"
        /\ \A i \in DOMAIN bgzfOut.members : bgzfOut.members[i].status = "ok"
        /\ bgzfOut.whole.data
              = Concat([i \in DOMAIN bgzfOut.members |-> bgzfOut.members[i].data])

\* three members that each hold bytes, GzipId bytes among them
C18_Witness ==
    /\ BgzfUnzipCalled
    /\ Len(bgzfInput) = 3
    /\ \A i \in DOMAIN bgzfInput : bgzfInput[i] # <<>>
    /\ bgzfInput[2][1] = GzipId
    /\ Len(bgzfOut.whole.data) >= 3

(***************************************************************************)
(* Byte order                                                              *)
(***************************************************************************)
\* what the steps of the read decoded so far is what was written in the file
DecodedAsWritten ==
    /\ hdrCall.pc \in {"header", "tree", "leaf", "done"} =>
          /\ hdrCall.header.littleEndian = hdrFile.littleEndian
          /\ Len(hdrCall.header.zoomLevelHeaders) = Len(hdrFile.levels)
          /\ \A k \in DOMAIN hdrCall.header.zoomLevelHeaders :
                hdrCall.header.zoomLevelHeaders[k].reductionLevel
                  = hdrFile.levels[Len(hdrFile.levels) - k + 1]
          /\ hdrFile.hasSummary =>
                hdrCall.header.totalSummary.basesCovered = FileValues.basesCovered
          /\ hdrFile.hasTree =>
                /\ hdrCall.header.chromTree.magic = CHROM_TREE_MAGIC
                /\ hdrCall.header.chromTree.count = 1
                /\ hdrCall.header.chromTree.items[1].chromSize = FileValues.chromSize
    /\ hdrCall.pc \in {"tree", "leaf", "done"} => hdrCall.magic = IdxMagic
    /\ hdrCall.pc \in {"leaf", "done"} =>
          /\ hdrCall.node.isLeaf /\ hdrCall.node.count = 1
          /\ hdrCall.node.items[1].startBase = FileValues.sectionStart
          /\ hdrCall.node.items[1].endBase = FileValues.sectionEnd
    /\ hdrCall.pc = "done" =>
          /\ hdrCall.section.startBase = FileValues.sectionStart
          /\ hdrCall.section.endBase = FileValues.sectionEnd

NoFileDetectedBigEndian == hdrCall.header.littleEndian

\* a file written big-endian is not read at all
BigEndianFileIsRejected ==
    (hdrCall.pc # "new" /\ ~hdrFile.littleEndian) =>
        hdrCall.pc = "failed" /\ hdrCall.status = "Unable to determine file type."

\* a file written little-endian is decoded as written
LittleEndianFileDecoded == hdrFile.littleEndian => DecodedAsWritten

LittleEndianFileRead ==
    /\ hdrCall.pc = "done" /\ hdrFile.littleEndian
    /\ Len(hdrFile.levels) = 2 /\ hdrFile.hasSummary

(***************************************************************************)
(* The R+ tree walk                                                        *)
(***************************************************************************)
\* the overlap predicate on a rectangle, for a query of chromosome indexes
\* qsc, qec and bases qsb, qeb
RectOverlaps(item, qsc, qsb, qec, qeb) ==
    /\ (qec > item.startChrom \/ (qec = item.startChrom /\ qeb >= item.startBase))
    /\ (qsc < item.endChrom \/ (qsc = item.endChrom /\ qsb <= item.endBase))

\* the leaf items under the node at offset whose own rectangle and the
\* rectangle of every child item on the way down from that node overlap
RECURSIVE LeavesUnder(_, _, _, _, _)
LeavesUnder(offset, qsc, qsb, qec, qeb) ==
    LET node == file.nodes[offset]
        passing == {i \in DOMAIN node.items :
                      RectOverlaps(node.items[i], qsc, qsb, qec, qeb)}
    IN  IF node.isLeaf THEN {node.items[i] : i \in passing}
        ELSE UNION {LeavesUnder(node.items[i].childOffset, qsc, qsb, qec, qeb) :
                      i \in passing}

WalkReturned == rd.pc = "leaf" \/ (rd.pc = "done" /\ rd.status = "ok")

NumberQuery == rd.q # <<>> /\ rd.q.sci.is = "number" /\ rd.q.eci.is = "number"

\* C20: the leaf list the walk returns holds exactly the leaf items whose own
\* rectangle and the rectangle of every ancestor child item overlap the
\* query, and a node is fetched only through a parent item that overlaps.
C20_WalkReturnsOverlappingLeaves ==
    /\ (WalkReturned /\ NumberQuery) =>
          {rd.leafNodes[i] : i \in DOMAIN rd.leafNodes}
            = LeavesUnder(file.treeOffset + RPTREE_HEADER_SIZE,
                          rd.q.sci.n, rd.q.startBase, rd.q.eci.n, rd.q.endBase)
    /\ (rd.pc \in {"nodeHeader", "nodeData"} /\ NumberQuery) =>
          \A k \in 2..Len(rd.stack) :
              LET parent == rd.stack[k - 1]
                  item == parent.items[parent.i + 1]
              IN  /\ item.childOffset = rd.stack[k].offset
                  /\ RectOverlaps(item, rd.q.sci.n, rd.q.startBase,
                                  rd.q.eci.n, rd.q.endBase)

\* every leaf item of the file
LeafItems ==
    UNION {{file.nodes[o].items[i] : i \in DOMAIN file.nodes[o].items} :
             o \in {n \in DOMAIN file.nodes : file.nodes[n].isLeaf}}

\* the walk returned the leaf item of the second leaf node and left out the
\* leaf node under the item of the root that does not overlap, although a
\* leaf item of that node overlaps
C20_Witness ==
    /\ WalkReturned /\ NumberQuery
    /\ file = ShrunkChild(DeepFile("wig", TRUE, IDX_MAGIC))
    /\ Len(rd.leafNodes) = 1
    /\ \E item \in LeafItems :
          /\ RectOverlaps(item, rd.q.sci.n, rd.q.startBase, rd.q.eci.n, rd.q.endBase)
          /\ item \notin {rd.leafNodes[i] : i \in DOMAIN rd.leafNodes}

(***************************************************************************)
(* The linear index bound of blocksForRange                                *)
(***************************************************************************)
\* the windows the loop over the linear index visits in the call made
WindowsOfCall ==
    Min(Shr(ixQuery.start, 14), Len(refIndex.linearIndex) - 1)
      .. Max(Shr(ixQuery.end, 14), Len(refIndex.linearIndex) - 1)

\* a window of the call has no entry in the linear index
WindowWithoutEntry ==
    /\ ixOut # NoBlocks
    /\ \E i \in WindowsOfCall : i \notin 0..(Len(refIndex.linearIndex) - 1)

\* C21: when a window between min(start >> 14, L - 1) and
\* max(end >> 14, L - 1) has no entry in the linear index (a position of L
\* or more, or any position when L = 0), the window is skipped and
\* blocksForRange still returns its chunk list.
C21_WindowWithoutEntryIsSkipped ==
    WindowWithoutEntry => ixOut.status = "ok"

\* what the code does instead: the call throws
WindowWithoutEntryThrows ==
    WindowWithoutEntry => ixOut.status = "TypeError"

(***************************************************************************)
(* The last record of a zoom block                                         *)
(***************************************************************************)
\* what reading all the records of the block gives: a record before the
\* range is skipped, a record past its end stops the reading, every other
\* record is emitted
RECURSIVE ZoomReadAll(_, _, _)
ZoomReadAll(recs, q, i) ==
    IF i > Len(recs) THEN <<>>
    ELSE LET r == recs[i]
         IN  IF BeforeRangeStart(r.chromIndex, r.end, q) THEN ZoomReadAll(recs, q, i + 1)
             ELSE IF PastRangeEnd(r.chromIndex, r.start, q) THEN <<>>
             ELSE <<[chr |-> ChromName(r.chromIndex), start |-> r.start,
                     end |-> r.end, validCount |-> r.validCount]>>
                  \o ZoomReadAll(recs, q, i + 1)

\* C22: for a zoom block of k whole 32-byte records the zoom decoder reads
\* all k records: every record that passes the skip-before / stop-after
\* filter is emitted, the last record of the block included.
C22_ZoomDecoderReadsEveryRecord ==
    (dPc = "done" /\ dKind = "zoom") => dOut = ZoomReadAll(dBlock.records, dQuery, 1)

\* what the code does instead: the last record of the block is never read
ZoomDecoderLeavesLastRecord ==
    (dPc = "done" /\ dKind = "zoom" /\ dBlock.records # <<>>) =>
        dOut = ZoomReadAll(SubSeq(dBlock.records, 1, Len(dBlock.records) - 1), dQuery, 1)

(***************************************************************************)
(* The lower-case mask of a 2bit sequence                                  *)
(***************************************************************************)
\* the 0-based position p of the sequence lies in a mask block
Masked(p) ==
    \E k \in DOMAIN twoBit.maskBlockStarts :
        /\ twoBit.maskBlockStarts[k] <= p
        /\ p < twoBit.maskBlockStarts[k] + twoBit.maskBlockSizes[k]

\* the 0-based position p of the sequence lies in a block of N's
InNBlock(p) ==
    \E k \in DOMAIN twoBit.nBlockStarts :
        /\ twoBit.nBlockStarts[k] <= p
        /\ p < twoBit.nBlockStarts[k] + twoBit.nBlockSizes[k]

\* the position of the sequence the i-th character of the string stands for
PositionOf(i) == FirstBase(tbQuery.start) + i - 1

\* C23: a character of the returned string that is not an N is lower case
\* if and only if its position lies in a mask block, whatever N blocks the
\* sequence record has.
C23_LowerCaseIffMasked ==
    tbOut.status = "ok" =>
        \A i \in DOMAIN tbOut.s :
            ~InNBlock(PositionOf(i)) =>
                (tbOut.s[i] # UpperCase(tbOut.s[i]) <=> Masked(PositionOf(i)))

\* what holds: in a sequence record without N blocks the mask is applied
MaskAppliedWithoutNBlocks ==
    (tbOut.status = "ok" /\ twoBit.nBlockStarts = <<>>) =>
        \A i \in DOMAIN tbOut.s :
            (tbOut.s[i] # UpperCase(tbOut.s[i]) <=> Masked(PositionOf(i)))

(***************************************************************************)
(* The packed sequence and the qualities of an alignment                   *)
(***************************************************************************)
\* the record of the buffer an emitted alignment was decoded from
RecordOf(a) == CHOOSE r \in {featBuffer.records[k] : k \in DOMAIN featBuffer.records} :
                   r.name = a.readName

\* C24: for every emitted alignment, of odd or even sequence length, the
\* decoder consumes floor((seqLen + 1) / 2) bytes of packed sequence, so
\* the qualities it decodes are the seqLen bytes the record holds behind
\* the packed sequence.
C24_QualitiesFollowPackedSequence ==
    \A i \in DOMAIN featOut.alignments :
        LET a == featOut.alignments[i]
        IN  /\ SeqBytesRead(Len(a.seq)) = (Len(a.seq) + 1) \div 2
            /\ a.phredQualities = RecordOf(a).qual

\* what holds: the qualities of an alignment of odd sequence length are
\* those of its record
OddLengthQualitiesAsWritten ==
    \A i \in DOMAIN featOut.alignments :
        LET a == featOut.alignments[i]
        IN  Len(a.seq) % 2 = 1 => a.phredQualities = RecordOf(a).qual

\* the qualities of an alignment of even sequence length start one byte late
EvenLengthQualitiesShifted ==
    \A i \in DOMAIN featOut.alignments :
        LET a == featOut.alignments[i]
        IN  Len(a.seq) % 2 = 0 =>
              SubSeq(a.phredQualities, 1, Len(a.seq) - 1) = Tail(RecordOf(a).qual)

(***************************************************************************)
(* Reading one reference of a BAI file                                     *)
(***************************************************************************)
\* the reference refId of the index readBamIndex returns for the file
WholeIndexRef(refId) == readBamIndex(baiFile.bytes).refData[refId + 1]

\* C25: for every BAI file and every refId in [0, numRefs),
\* readBamIndexRef(loader, refId) returns the bin index and linear index
\* that readBamIndex(loader).refData[refId] holds.
C25_RefEqualsWholeIndexEntry ==
    (baiCall.op = "readBamIndexRef" /\ baiCall.status = "ok")
        => baiCall.ref = WholeIndexRef(baiCall.refId)

\* what holds: the one reference parsed is the entry of the whole index, so
\* skipping a reference consumes the bytes that parsing it would
ParsedRefEqualsWholeIndexEntry ==
    (baiCall.op = "readBamIndexRef" /\ baiCall.status = "ok")
        => baiCall.refData = <<WholeIndexRef(baiCall.refId)>>

\* and it is returned for refId 0 only: refData[refId] is undefined otherwise
OnlyRefZeroReturned ==
    (baiCall.op = "readBamIndexRef" /\ baiCall.status = "ok")
        => IF baiCall.refId = 0 THEN baiCall.ref = WholeIndexRef(0)
           ELSE baiCall.ref = UndefinedRef

\* the index readBamIndex returns is the one written into the file
WholeIndexAsWritten ==
    (baiCall.op = "readBamIndex" /\ baiCall.status = "ok")
        => /\ Len(baiCall.refData) = Len(baiFile.refs)
           /\ \A r \in DOMAIN baiFile.refs :
                 /\ baiCall.refData[r].linearIndex = baiFile.refs[r].intervals
                 /\ \A b \in DOMAIN baiFile.refs[r].bins :
                       LET bin == baiFile.refs[r].bins[b]
                       IN  bin.bin # PSEUDO_BIN_MAGIC
                             => baiCall.refData[r].binIndex[bin.bin] = bin.chunks

(***************************************************************************)
(* The buffer readBam hands to the alignment decoder                       *)
(***************************************************************************)
\* what the BGZF members of the file hold from the member at position p on
RECURSIVE HeldFrom(_, _)
HeldFrom(bytes, p) ==
    IF p + 2 > Len(bytes) \/ bytes[p + 1] # GzipId THEN <<>>
    ELSE SubSeq(bytes, p + 3, p + 2 + bytes[p + 2]) \o HeldFrom(bytes, p + 2 + bytes[p + 2])

\* the decompressed bytes of the file from the virtual offset vo on
FromVirtualOffset(bytes, vo) ==
    LET held == HeldFrom(bytes, vo.blockPosition)
    IN  SubSeq(held, vo.dataPosition + 1, Len(held))

\* C26: for every chunk processed by the BAM reader, the buffer handed to
\* the alignment decoder starts at the decompressed byte chunk.start
\* addresses: the chunk.start.dataPosition leading bytes of the first BGZF
\* member are removed once, neither zero times nor twice.
C26_BufferStartsAtChunkStart ==
    \A k \in DOMAIN bamCall.handed :
        LET chunk == bamCall.chunks[k]
        IN  /\ bamCall.handed[k] = FromVirtualOffset(bam.bytes, chunk.start)
            /\ Len(HeldFrom(bam.bytes, chunk.start.blockPosition)) - Len(bamCall.handed[k])
                   = chunk.start.dataPosition

\* a chunk that starts inside its member was handed to the decoder, and the
\* member holds more than twice the bytes before the chunk
C26_Witness ==
    \E k \in DOMAIN bamCall.handed :
        /\ bamCall.chunks[k].start.dataPosition > 0
        /\ Len(bamCall.handed[k]) > bamCall.chunks[k].start.dataPosition
        /\ bamCall.alignments # <<>>

(***************************************************************************)
(* The buffer of a loader in streaming mode                                *)
(***************************************************************************)
\* a load of stream mode has resolved
StreamLoadResolved == streamMode /\ call.pc = "idle" /\ call.res.status = "ok"

\* C27: in streaming mode, under any sequence of loads, byte i of the
\* buffered data is the resource byte at offset bufStart + i; a load waits
\* while bufStart + len(buffer) < start + size, resolves with exactly the
\* resource bytes [start, start + size), and leaves the head of the buffer
\* trimmed so that bufStart = start + size.
C27_StreamBufferHoldsResourceBytes ==
    streamMode =>
        /\ buffer.defined =>
              \A i \in 0..(Len(buffer.data) - 1) : buffer.data[i + 1] = buffer.start + i
        /\ call.pc = "wait" =>
              buffer.start + Len(buffer.data) < call.start + call.size
        /\ StreamLoadResolved =>
              /\ call.res.data = FileBytes(call.start, call.start + call.size)
              /\ buffer.start = call.start + call.size
              /\ buffer.start + Len(buffer.data) >= call.start + call.size

\* a forward load into a buffer that was being streamed: it skipped bytes,
\* got its own and left bytes behind them in the buffer
C27_Witness ==
    /\ StreamLoadResolved
    /\ call.pre.defined /\ call.pre.start < call.start /\ call.reqs = <<>>
    /\ call.size > 0 /\ buffer.data # <<>>

(***************************************************************************)
(* The parsed index under blocksForRange calls                             *)
(***************************************************************************)
\* C28: any sequence of blocksForRange calls leaves the parsed index, the
\* chunk list of every bin and the linear index, unchanged, so that the
\* same query on it returns an equal chunk list each time.
C28_CallsLeaveIndexUnchanged ==
    [][bamIndex' = bamIndex]_vars

\* what holds of BamIndexReader.ts: its blocksForRange inflates the raw
\* chunks into objects of its own and leaves the index as it was
IndexReaderLeavesIndexUnchanged ==
    [][refIndex' = refIndex]_vars

\* and a query answers what it answers on the index as parsed
IndexReaderAnswersFromIndex ==
    ixOut.status # "none" => ixOut = blocksForRange(refIndex, ixQuery.start, ixQuery.end)

\* the earlier reader changes nothing but the ends of chunks, and the
\* linear index never
PastCallsOnlyMoveEnds ==
    [][/\ bamIndex'.linearIndex = bamIndex.linearIndex
       /\ DOMAIN bamIndex'.binIndex = DOMAIN bamIndex.binIndex
       /\ \A bin \in DOMAIN bamIndex.binIndex :
             /\ Len(bamIndex'.binIndex[bin]) = Len(bamIndex.binIndex[bin])
             /\ \A c \in DOMAIN bamIndex.binIndex[bin] :
                   /\ bamIndex'.binIndex[bin][c].start = bamIndex.binIndex[bin][c].start
                   /\ ~isVOLessThan(bamIndex'.binIndex[bin][c].end,
                                    bamIndex.binIndex[bin][c].end)]_vars

(***************************************************************************)
(* What coalescing keeps                                                   *)
(***************************************************************************)
\* the chunks of the overlapping bins that do not end before the lowest
\* offset of the linear index
KeptChunks ==
    {CollectedChunks[k] : k \in {j \in DOMAIN CollectedChunks :
        ~isVOLessThan(CollectedChunks[j].end, LowestOfCall.vo)}}

\* the returned chunk m covers the chunk c, in virtual-offset order
Covers(m, c) == ~isVOLessThan(c.start, m.start) /\ ~isVOLessThan(m.end, c.end)

\* C29: every chunk of an overlapping bin that the linear-index bound does
\* not drop is covered by a returned chunk m: m.start <= c.start and
\* c.end <= m.end in virtual-offset order.
C29_KeptChunksAreCovered ==
    ixOut.status = "ok" =>
        \A c \in KeptChunks : \E i \in DOMAIN ixOut.chunks : Covers(ixOut.chunks[i], c)

\* a kept chunk is not returned itself: it was taken into a chunk that
\* starts before it and now ends where it ends; another chunk was dropped
C29_Witness ==
    /\ ixOut.status = "ok"
    /\ \E c \in KeptChunks :
          /\ \A i \in DOMAIN ixOut.chunks : ixOut.chunks[i] # c
          /\ \E i \in DOMAIN ixOut.chunks :
                /\ ixOut.chunks[i].end = c.end
                /\ isVOLessThan(ixOut.chunks[i].start, c.start)
    /\ \E k \in DOMAIN CollectedChunks :
          isVOLessThan(CollectedChunks[k].end, LowestOfCall.vo)

(***************************************************************************)
(* Two read calls on one reader                                            *)
(***************************************************************************)
\* what the read call with the arguments args returns when it runs alone
ReadAlone(args) ==
    LET ran == PairRun(PairEnter(args), <<>>)
        r == PairAlone(ran.r, ran.list)
    IN  [status |-> r.status, out |-> r.out]

\* C30: two read calls started on one BigWigReader whose header is cached,
\* interleaved in any way at their byte fetches, each return the records
\* they return when run alone.
C30_InterleavedReadsReturnAsAlone ==
    \A i \in DOMAIN reads :
        reads[i].pc = "done"
            => [status |-> reads[i].status, out |-> reads[i].out] = ReadAlone(readArgs[i])

\* both calls have returned records, not the same ones, and each ran
\* while the other was waiting for a fetch
C30_Witness ==
    /\ \A i \in DOMAIN reads :
          /\ reads[i].pc = "done" /\ reads[i].status = "ok"
          /\ reads[i].out # <<>> /\ reads[i].crossed
    /\ reads[1].out # reads[2].out

====
